---------------------------- MODULE Spec2Model ----------------------------
(***************************************************************************)
(* Verification model of the PIVY stealth-address core for Aptos           *)
(* (stealth-address/pivy-stealth-fungibleasset-flow.js, class              *)
(* PivyStealthAptos) together with the demo flow that exercises it.        *)
(*                                                                         *)
(* Byte strings (Uint8Array / Buffer) are sequences over 0..255 with the   *)
(* lengths the program uses (32-byte scalars, 33-byte compressed points,   *)
(* 65-byte uncompressed points, 24-byte nonces).  JavaScript strings are   *)
(* sequences of one-character strings; message texts are sequences of      *)
(* UTF-16 code units.                                                      *)
(*                                                                         *)
(* The elliptic curve is y^2 = x^3 + 7 (the secp256k1 equation) over the   *)
(* field F_13, whose group has prime order 7: the library calls            *)
(* (getPublicKey, getSharedSecret, Point.fromHex, add, multiply) are       *)
(* computed with the real group law on that curve.  The hash functions     *)
(* are fixed 32-byte mixing functions standing for SHA-256 and SHA3-256.   *)
(***************************************************************************)
EXTENDS Integers, Sequences, FiniteSets, TLC

(***************************************************************************)
(* Byte helpers                                                            *)
(***************************************************************************)
Byte == 0..255

RECURSIVE BitXor(_, _)
\* JavaScript a ^ b on two bytes.
BitXor(a, b) ==
    IF a = 0 THEN b
    ELSE IF b = 0 THEN a
    ELSE ((a + b) % 2) + 2 * BitXor(a \div 2, b \div 2)

Zeros(k) == [i \in 1..k |-> 0]

\* u8.slice(from) / u8.slice(from, to) with 0-based, end-exclusive indices.
Slice(u8, from, to) ==
    LET lo == IF from > Len(u8) THEN Len(u8) ELSE from
        hi == IF to > Len(u8) THEN Len(u8) ELSE to
    IN  IF hi <= lo THEN << >> ELSE [i \in 1..(hi - lo) |-> u8[lo + i]]

SliceFrom(u8, from) == Slice(u8, from, Len(u8))

\* numTo32b: the 32-byte big-endian encoding of a small non-negative number.
NumTo32b(x) == [i \in 1..32 |-> IF i = 32 THEN x % 256
                                ELSE IF i = 31 THEN (x \div 256) % 256 ELSE 0]

RECURSIVE ModOfBytes(_, _, _, _)
\* BigInt('0x' + hex(bytes)) % m, by Horner's rule so that no intermediate
\* value leaves the machine integers.
ModOfBytes(bytes, i, acc, m) ==
    IF i > Len(bytes) THEN acc
    ELSE LET next == (acc * 256 + bytes[i]) % m
         IN  IF next = 0 THEN ModOfBytes(bytes, i + 1, 0, m)
             ELSE ModOfBytes(bytes, i + 1, next, m)

\* TRUE iff the big-endian number in bytes is zero.
IsZeroBytes(bytes) == \A i \in 1..Len(bytes) : bytes[i] = 0

RECURSIVE CmpBytesToNum(_, _, _)
\* TRUE iff the big-endian number in bytes (fixed 32 bytes) is < m, for a
\* modulus below 2^16.
CmpBytesToNum(bytes, i, m) ==
    IF i > Len(bytes) - 2 THEN bytes[Len(bytes) - 1] * 256 + bytes[Len(bytes)] < m
    ELSE IF bytes[i] # 0 THEN FALSE
    ELSE CmpBytesToNum(bytes, i + 1, m)

(***************************************************************************)
(* Hex and Base58 text                                                     *)
(***************************************************************************)
HexDigits == <<"0","1","2","3","4","5","6","7","8","9","a","b","c","d","e","f">>
HexUpper  == <<"0","1","2","3","4","5","6","7","8","9","A","B","C","D","E","F">>

IsHexChar(c) == \E i \in 1..16 : HexDigits[i] = c \/ HexUpper[i] = c
HexValue(c)  == (CHOOSE i \in 1..16 : HexDigits[i] = c \/ HexUpper[i] = c) - 1

\* Buffer.from(bytes).toString('hex')
ToHex(bytes) ==
    [i \in 1..(2 * Len(bytes)) |->
        LET b == bytes[(i + 1) \div 2]
        IN  IF i % 2 = 1 THEN HexDigits[(b \div 16) + 1] ELSE HexDigits[(b % 16) + 1]]

\* Buffer.from(str, 'hex') for a string of hex digits of even length.
FromHex(str) ==
    [i \in 1..(Len(str) \div 2) |-> 16 * HexValue(str[2 * i - 1]) + HexValue(str[2 * i])]

B58Alphabet ==
    <<"1","2","3","4","5","6","7","8","9",
      "A","B","C","D","E","F","G","H","J","K","L","M","N","P","Q","R","S","T","U","V","W","X","Y","Z",
      "a","b","c","d","e","f","g","h","i","j","k","m","n","o","p","q","r","s","t","u","v","w","x","y","z">>

IsB58Char(c) == \E i \in 1..58 : B58Alphabet[i] = c
B58Value(c)  == (CHOOSE i \in 1..58 : B58Alphabet[i] = c) - 1

RECURSIVE LeadingCount(_, _, _)
\* Number of leading elements of seq equal to x, counted from index i.
LeadingCount(seq, x, i) ==
    IF i > Len(seq) \/ seq[i] # x THEN 0 ELSE 1 + LeadingCount(seq, x, i + 1)

RECURSIVE DivRange(_, _, _, _, _, _)
\* Long division of the digits num[lo..hi] (base from) by d, entering with
\* the remainder rem: returns <<quotient digits, remainder>>.  The range is
\* halved so that the evaluation stays shallow.
DivRange(num, lo, hi, rem, from, d) ==
    IF lo > hi THEN << << >>, rem >>
    ELSE IF lo = hi
    THEN LET cur == rem * from + num[lo]
         IN  << <<cur \div d>>, cur % d >>
    ELSE LET mid   == (lo + hi) \div 2
             left  == DivRange(num, lo, mid, rem, from, d)
             right == DivRange(num, mid + 1, hi, left[2], from, d)
         IN  << left[1] \o right[1], right[2] >>

StripLeading(seq, x) == SliceFrom(seq, LeadingCount(seq, x, 1))

RECURSIVE BaseConvert3(_, _, _, _)
\* The base-to digits, most significant first, of the number whose base-from
\* digits are num.  Each pass divides by to^3 and so yields three digits;
\* the caller strips the leading zero digits of the result.
BaseConvert3(num, from, to, out) ==
    LET n == StripLeading(num, 0)
    IN  IF n = << >> THEN out
        ELSE LET r == DivRange(n, 1, Len(n), 0, from, to * to * to)
                 m == r[2]
             IN  BaseConvert3(r[1], from, to,
                     <<m \div (to * to), (m \div to) % to, m % to>> \o out)

\* The digits (most significant first, no leading zero digit) of the number
\* whose base-from digits are num, in base to, as the base-x package that
\* bs58 wraps computes them.
BaseConvert(num, from, to) == StripLeading(BaseConvert3(num, from, to, << >>), 0)

\* An encoder that drops the leading zero bytes of its input.
Bs58Encode_NoLeadingZeros(bytes) ==
    LET ds == BaseConvert(bytes, 256, 58)
    IN  [i \in 1..Len(ds) |-> B58Alphabet[ds[i] + 1]]

\* bs58.encode: one "1" per leading zero byte, then the base-58 digits.
Bs58Encode(bytes) ==
    LET z  == LeadingCount(bytes, 0, 1)
        ds == BaseConvert(bytes, 256, 58)
    IN  [i \in 1..z |-> "1"] \o [i \in 1..Len(ds) |-> B58Alphabet[ds[i] + 1]]

Bs58Valid(str) == \A i \in 1..Len(str) : IsB58Char(str[i])

\* bs58.decode of a string of Base58 characters (it throws on any other).
Bs58Decode(str) ==
    LET z  == LeadingCount(str, "1", 1)
        ds == [i \in 1..Len(str) |-> B58Value(str[i])]
    IN  Zeros(z) \o BaseConvert(ds, 58, 256)

(***************************************************************************)
(* Outcomes: a call either returns a value or throws.                      *)
(***************************************************************************)
Ok(v)      == [ok |-> TRUE, val |-> v, err |-> ""]
Throw(msg) == [ok |-> FALSE, val |-> << >>, err |-> msg]
NONE       == [ok |-> FALSE, val |-> << >>, err |-> "not called"]

(***************************************************************************)
(* Hashes (@noble/hashes).  A digest is 32 bytes that depend on every      *)
(* byte of the input and on its length.                                    *)
(***************************************************************************)
RECURSIVE Absorb(_, _, _, _)
\* The state after absorbing bytes[lo..hi] into acc; the range is halved so
\* that the evaluation stays shallow.
Absorb(bytes, lo, hi, acc) ==
    IF lo > hi THEN acc
    ELSE IF lo = hi THEN (acc * 31 + bytes[lo] + 1) % 65521
    ELSE LET mid  == (lo + hi) \div 2
             left == Absorb(bytes, lo, mid, acc)
         IN  IF left < 0 THEN left ELSE Absorb(bytes, mid + 1, hi, left)

Digest(bytes, seed) ==
    LET a == Absorb(bytes, 1, Len(bytes), seed + Len(bytes))
    IN  [i \in 1..32 |-> ((a + 7 * i) * (2 * i + 1) + (a \div 256)) % 256]

sha256(bytes)   == Digest(bytes, 23)
sha3_256(bytes) == Digest(bytes, 101)

(***************************************************************************)
(* The curve (@noble/secp256k1): y^2 = x^3 + 7 over F_CurveP, base point   *)
(* BASE of prime order CurveN.  A point is <<x, y>>; ZERO is <<0, 0>>.     *)
(***************************************************************************)
CurveP == 13
CurveN == 7
CurveB == 7
BASE   == <<7, 5>>
ZERO   == <<0, 0>>

ModP(a) == ((a % CurveP) + CurveP) % CurveP
InvP(a) == CHOOSE i \in 1..(CurveP - 1) : (ModP(a) * i) % CurveP = 1

OnCurve(pt) == ModP(pt[2] * pt[2]) = ModP(pt[1] * pt[1] * pt[1] + CurveB)

Negate(pt) == IF pt = ZERO THEN ZERO ELSE <<pt[1], ModP(0 - pt[2])>>

\* Point.add
PointAdd(a, b) ==
    IF a = ZERO THEN b
    ELSE IF b = ZERO THEN a
    ELSE IF a[1] = b[1] /\ ModP(a[2] + b[2]) = 0 THEN ZERO
    ELSE LET lam == IF a = b
                    THEN ModP(3 * a[1] * a[1] * InvP(2 * a[2]))
                    ELSE ModP((b[2] - a[2]) * InvP(b[1] - a[1]))
             x3  == ModP(lam * lam - a[1] - b[1])
         IN  <<x3, ModP(lam * (a[1] - x3) - a[2])>>

RECURSIVE ScalarMul(_, _)
\* k * pt by double-and-add, for 0 <= k.
ScalarMul(k, pt) ==
    IF k = 0 THEN ZERO
    ELSE LET half == ScalarMul(k \div 2, pt)
             dbl  == PointAdd(half, half)
         IN  IF k % 2 = 1 THEN PointAdd(dbl, pt) ELSE dbl

\* isWithinCurveOrder: 0 < num < CURVE.n
IsWithinCurveOrder(num) == 0 < num /\ num < CurveN

\* Point.multiply(scalar): normalizeScalar rejects a scalar outside 1..n-1.
PointMultiply(pt, scalar) ==
    IF IsWithinCurveOrder(scalar) THEN Ok(ScalarMul(scalar, pt))
    ELSE Throw("Expected valid private scalar: 0 < scalar < curve.n")

\* Point.toRawBytes(isCompressed)
PointToRawBytes(pt, isCompressed) ==
    IF isCompressed
    THEN <<IF pt[2] % 2 = 0 THEN 2 ELSE 3>> \o NumTo32b(pt[1])
    ELSE <<4>> \o NumTo32b(pt[1]) \o NumTo32b(pt[2])

\* bytesToNumber of a 32-byte field element, when it is a valid one
\* (0 < x < P); 0 otherwise.
FieldElement(bytes) ==
    IF CmpBytesToNum(bytes, 1, CurveP) THEN bytes[31] * 256 + bytes[32] ELSE 0

\* Point.fromHex: a 33-byte compressed or 65-byte uncompressed key.
PointFromHex(bytes) ==
    IF Len(bytes) = 33 /\ bytes[1] \in {2, 3}
    THEN LET x  == FieldElement(Slice(bytes, 1, 33))
             y2 == ModP(x * x * x + CurveB)
             ys == {y \in 0..(CurveP - 1) : (y * y) % CurveP = y2}
         IN  IF x = 0 \/ ys = {} THEN Throw("Point is not on curve")
             ELSE LET y    == CHOOSE c \in ys : TRUE
                      odd  == bytes[1] = 3
                  IN  Ok(IF (y % 2 = 1) = odd THEN <<x, y>> ELSE <<x, ModP(0 - y)>>)
    ELSE IF Len(bytes) = 65 /\ bytes[1] = 4
    THEN LET x == FieldElement(Slice(bytes, 1, 33))
             y == FieldElement(Slice(bytes, 33, 65))
         IN  IF x = 0 \/ y = 0 \/ ~OnCurve(<<x, y>>) THEN Throw("Point is not on curve")
             ELSE Ok(<<x, y>>)
    ELSE Throw("Point.fromHex: received invalid point")

\* A normalisation that reduces the key modulo n instead of rejecting it.
NormalizePrivateKey_Reduce(key) ==
    IF Len(key) # 32 THEN Throw("Expected 32 bytes of private key")
    ELSE Ok(ModOfBytes(key, 1, 0, CurveN))

\* normalizePrivateKey: exactly 32 bytes encoding a number in 1..n-1.
NormalizePrivateKey(key) ==
    IF Len(key) # 32 THEN Throw("Expected 32 bytes of private key")
    ELSE IF IsZeroBytes(key) \/ ~CmpBytesToNum(key, 1, CurveN)
    THEN Throw("Expected private key: 0 < key < curve.n")
    ELSE Ok(key[31] * 256 + key[32])

\* A public-key routine that multiplies by whatever scalar the bytes
\* encode, zero included.
GetPublicKey_NoRangeCheck(privateKey, isCompressed) ==
    Ok(PointToRawBytes(ScalarMul(ModOfBytes(privateKey, 1, 0, CurveN), BASE), isCompressed))

\* secp.getPublicKey(privateKey, isCompressed)
GetPublicKey(privateKey, isCompressed) ==
    LET k == NormalizePrivateKey(privateKey)
    IN  IF ~k.ok THEN k
        ELSE Ok(PointToRawBytes(ScalarMul(k.val, BASE), isCompressed))

\* secp.getSharedSecret(privateA, publicB, isCompressed)
GetSharedSecret(privateA, publicB, isCompressed) ==
    IF Len(privateA) \in {33, 65}
    THEN Throw("getSharedSecret: first arg must be private key")
    ELSE IF Len(publicB) \notin {33, 65}
    THEN Throw("getSharedSecret: second arg must be public key")
    ELSE LET b == PointFromHex(publicB)
             k == NormalizePrivateKey(privateA)
         IN  IF ~b.ok THEN b
             ELSE IF ~k.ok THEN k
             ELSE Ok(PointToRawBytes(ScalarMul(k.val, b.val), isCompressed))

(***************************************************************************)
(* Text codecs (TextEncoder / TextDecoder).  A JavaScript string is a       *)
(* sequence of UTF-16 code units.                                          *)
(***************************************************************************)
IsHighSurrogate(u) == 55296 <= u /\ u <= 56319
IsLowSurrogate(u)  == 56320 <= u /\ u <= 57343
REPLACEMENT        == 65533
BOM                == 65279

\* The UTF-8 bytes of one scalar value.
Utf8OfCodePoint(cp) ==
    IF cp < 128 THEN <<cp>>
    ELSE IF cp < 2048 THEN <<192 + (cp \div 64), 128 + (cp % 64)>>
    ELSE IF cp < 65536
    THEN <<224 + (cp \div 4096), 128 + ((cp \div 64) % 64), 128 + (cp % 64)>>
    ELSE <<240 + (cp \div 262144), 128 + ((cp \div 4096) % 64),
           128 + ((cp \div 64) % 64), 128 + (cp % 64)>>

RECURSIVE Utf8EncodeFrom(_, _)
\* new TextEncoder().encode(str): a surrogate pair is one scalar value, a
\* lone surrogate is encoded as U+FFFD.
Utf8EncodeFrom(units, i) ==
    IF i > Len(units) THEN << >>
    ELSE LET u == units[i]
         IN  IF IsHighSurrogate(u) /\ i < Len(units) /\ IsLowSurrogate(units[i + 1])
             THEN Utf8OfCodePoint(65536 + (u - 55296) * 1024 + (units[i + 1] - 56320))
                      \o Utf8EncodeFrom(units, i + 2)
             ELSE IF IsHighSurrogate(u) \/ IsLowSurrogate(u)
             THEN Utf8OfCodePoint(REPLACEMENT) \o Utf8EncodeFrom(units, i + 1)
             ELSE Utf8OfCodePoint(u) \o Utf8EncodeFrom(units, i + 1)

TextEncode(units) == Utf8EncodeFrom(units, 1)

IsCont(bytes, i, lo, hi) == i <= Len(bytes) /\ lo <= bytes[i] /\ bytes[i] <= hi

\* The code units of one decoded scalar value.
UnitsOfCodePoint(cp) ==
    IF cp < 65536 THEN <<cp>>
    ELSE <<55296 + ((cp - 65536) \div 1024), 56320 + ((cp - 65536) % 1024)>>

RECURSIVE Utf8DecodeFrom(_, _)
\* The UTF-8 decoder of the Encoding Standard with replacement: a malformed
\* sequence gives one U+FFFD and decoding resumes at the offending byte.
Utf8DecodeFrom(bytes, i) ==
    IF i > Len(bytes) THEN << >>
    ELSE LET b == bytes[i]
         IN  IF b < 128 THEN <<b>> \o Utf8DecodeFrom(bytes, i + 1)
             ELSE IF 194 <= b /\ b <= 223
             THEN IF IsCont(bytes, i + 1, 128, 191)
                  THEN <<(b - 192) * 64 + (bytes[i + 1] - 128)>>
                           \o Utf8DecodeFrom(bytes, i + 2)
                  ELSE <<REPLACEMENT>> \o Utf8DecodeFrom(bytes, i + 1)
             ELSE IF 224 <= b /\ b <= 239
             THEN LET lo == IF b = 224 THEN 160 ELSE 128
                      hi == IF b = 237 THEN 159 ELSE 191
                  IN  IF ~IsCont(bytes, i + 1, lo, hi)
                      THEN <<REPLACEMENT>> \o Utf8DecodeFrom(bytes, i + 1)
                      ELSE IF ~IsCont(bytes, i + 2, 128, 191)
                      THEN <<REPLACEMENT>> \o Utf8DecodeFrom(bytes, i + 2)
                      ELSE <<(b - 224) * 4096 + (bytes[i + 1] - 128) * 64
                                 + (bytes[i + 2] - 128)>>
                               \o Utf8DecodeFrom(bytes, i + 3)
             ELSE IF 240 <= b /\ b <= 244
             THEN LET lo == IF b = 240 THEN 144 ELSE 128
                      hi == IF b = 244 THEN 143 ELSE 191
                  IN  IF ~IsCont(bytes, i + 1, lo, hi)
                      THEN <<REPLACEMENT>> \o Utf8DecodeFrom(bytes, i + 1)
                      ELSE IF ~IsCont(bytes, i + 2, 128, 191)
                      THEN <<REPLACEMENT>> \o Utf8DecodeFrom(bytes, i + 2)
                      ELSE IF ~IsCont(bytes, i + 3, 128, 191)
                      THEN <<REPLACEMENT>> \o Utf8DecodeFrom(bytes, i + 3)
                      ELSE UnitsOfCodePoint((b - 240) * 262144
                                 + (bytes[i + 1] - 128) * 4096
                                 + (bytes[i + 2] - 128) * 64 + (bytes[i + 3] - 128))
                               \o Utf8DecodeFrom(bytes, i + 4)
             ELSE <<REPLACEMENT>> \o Utf8DecodeFrom(bytes, i + 1)

\* new TextDecoder().decode(bytes): fatal and ignoreBOM are off, so errors
\* are replaced and one leading byte order mark is dropped.
TextDecode(bytes) ==
    LET units == Utf8DecodeFrom(bytes, 1)
    IN  IF Len(units) > 0 /\ units[1] = BOM THEN Tail(units) ELSE units

(***************************************************************************)
(* Key arguments: the shapes a caller may pass where a key is expected.    *)
(***************************************************************************)
U8(bytes)       == [kind |-> "u8", chars |-> << >>, bytes |-> bytes, type |-> ""]
Str(chars)      == [kind |-> "str", chars |-> chars, bytes |-> << >>, type |-> ""]
Obj(type, data) == [kind |-> "obj", chars |-> << >>, bytes |-> data, type |-> type]
UNDEFINED       == [kind |-> "undefined", chars |-> << >>, bytes |-> << >>, type |-> ""]

\* /^[0-9a-f]{64}$/i.test(raw): raw is coerced to a string; the text of an
\* object or of undefined is never 64 hex digits.
IsHex64(raw) ==
    /\ raw.kind = "str"
    /\ Len(raw.chars) = 64
    /\ \A i \in 1..64 : IsHexChar(raw.chars[i])

to32u8(raw) ==
    IF raw.kind = "u8" THEN Ok(raw.bytes)
    ELSE IF IsHex64(raw) THEN Ok(FromHex(raw.chars))
    ELSE IF raw.kind = "str"
    THEN IF Bs58Valid(raw.chars) THEN Ok(Bs58Decode(raw.chars))
         ELSE Throw("Non-base58 character")
    ELSE IF raw.kind = "obj" /\ raw.type = "Buffer" THEN Ok(raw.bytes)
    ELSE Throw("Unsupported key format")

\* A pad32 that copies the whole input: out.set(u8) without the slice.
pad32_NoSlice(u8) ==
    [i \in 1..(IF Len(u8) > 32 THEN Len(u8) ELSE 32) |-> IF i <= Len(u8) THEN u8[i] ELSE 0]

\* pad32(u8)
pad32(u8) == [i \in 1..32 |-> IF i <= Len(u8) THEN u8[i] ELSE 0]

(***************************************************************************)
(* Address encoding                                                        *)
(***************************************************************************)
\* The layout without the trailing authentication-scheme byte.
AuthKeyData_NoScheme(uncompressedPubKey) == <<1>> \o <<65>> \o uncompressedPubKey

\* keyTypePrefix | keyLength | uncompressedPubKey | authScheme
AuthKeyData(uncompressedPubKey) ==
    LET keyTypePrefix == <<1>>
        keyLength     == <<65>>
        authScheme    == <<2>>
    IN  keyTypePrefix \o keyLength \o uncompressedPubKey \o authScheme

\* An encoder that does not parse the key: it hashes the X bytes it was
\* given with a zero Y.
secp256k1PointToAptosAddress_Unchecked(point) ==
    Ok(<<"0", "x">> \o
       ToHex(sha3_256(AuthKeyData(<<4>> \o SliceFrom(point, 1) \o Zeros(32)))))

\* The encoder hashing the 33-byte compressed key instead of the 65-byte one.
secp256k1PointToAptosAddress_Compressed(point) ==
    LET pt == PointFromHex(point)
    IN  IF ~pt.ok THEN pt
        ELSE Ok(<<"0", "x">> \o ToHex(sha3_256(<<1>> \o <<33>> \o point \o <<2>>)))

secp256k1PointToAptosAddress(point) ==
    LET pt == PointFromHex(point)
    IN  IF ~pt.ok THEN pt
        ELSE LET uncompressedPubKey == PointToRawBytes(pt.val, FALSE)
                 data    == AuthKeyData(uncompressedPubKey)
                 authKey == sha3_256(data)
             IN  Ok(<<"0", "x">> \o ToHex(authKey))

(***************************************************************************)
(* The Aptos SDK (@aptos-labs/ts-sdk) routines the library calls.          *)
(***************************************************************************)
RECURSIVE Uleb128(_)
Uleb128(x) == IF x < 128 THEN <<x>> ELSE <<128 + (x % 128)>> \o Uleb128(x \div 128)

\* AccountAddress.toString(): the special addresses 0x0 .. 0xf are written
\* in short form, every other address as 64 hex digits.
AccountAddressToString(addr) ==
    IF (\A i \in 1..31 : addr[i] = 0) /\ addr[32] < 16
    THEN <<"0", "x", HexDigits[addr[32] + 1]>>
    ELSE <<"0", "x">> \o ToHex(addr)

\* Account.fromPrivateKey({ privateKey: new Secp256k1PrivateKey(bytes) })
\*   .accountAddress.toString(): a single-key account whose authentication
\* key is SHA3-256 of the BCS-serialised AnyPublicKey (variant 1, then the
\* length-prefixed 65-byte key) followed by the SingleKey scheme byte 2.
SdkAccountAddress(privBytes) ==
    IF Len(privBytes) # 32 THEN Throw("PrivateKey length should be 32")
    ELSE LET pub == GetPublicKey(privBytes, FALSE)
         IN  IF ~pub.ok THEN pub
             ELSE LET anyPublicKey == Uleb128(1) \o Uleb128(Len(pub.val)) \o pub.val
                      singleKey    == 2
                  IN  Ok(AccountAddressToString(sha3_256(Append(anyPublicKey, singleKey))))

(***************************************************************************)
(* Encryption and decryption                                               *)
(***************************************************************************)
\* Key bytes hashed from the whole compressed point, parity byte included.
KeyBytesOf_WithFlag(shared) == sha256(shared)

\* sha256(shared.slice(1)): the key bytes from the compressed shared point.
KeyBytesOf(shared) == sha256(SliceFrom(shared, 1))

\* for (i ...) out[i] = data[i] ^ keyBytes[i % 32]
XorKeystream(data, keyBytes) ==
    [i \in 1..Len(data) |-> BitXor(data[i], keyBytes[((i - 1) % 32) + 1])]

\* encryptEphemeralPrivKey(ephPriv32, metaViewPub), with the nonce that
\* randomBytes(24) returned.
encryptEphemeralPrivKey(ephPriv32, metaViewPub, nonce) ==
    LET priv == to32u8(ephPriv32)
        pub  == to32u8(metaViewPub)
    IN  IF ~priv.ok THEN priv
        ELSE IF ~pub.ok THEN pub
        ELSE LET shared == GetSharedSecret(priv.val, pub.val, TRUE)
             IN  IF ~shared.ok THEN shared
                 ELSE LET keyBytes == KeyBytesOf(shared.val)
                          ephPub   == GetPublicKey(priv.val, TRUE)
                      IN  IF ~ephPub.ok THEN ephPub
                          ELSE LET plain == priv.val \o ephPub.val
                                   enc   == XorKeystream(plain, keyBytes)
                               IN  Ok(Bs58Encode(nonce \o enc))

\* Decryption without the integrity check: the first 32 decrypted bytes are
\* returned whatever public key follows them.
DecryptEphemeralPayload_NoCheck(payload, metaViewPriv, ephPub) ==
    LET encrypted == SliceFrom(payload, 24)
        priv      == to32u8(metaViewPriv)
        pub       == to32u8(ephPub)
    IN  IF ~priv.ok THEN priv
        ELSE IF ~pub.ok THEN pub
        ELSE LET shared == GetSharedSecret(priv.val, pub.val, TRUE)
             IN  IF ~shared.ok THEN shared
                 ELSE Ok(Slice(XorKeystream(encrypted, KeyBytesOf(shared.val)), 0, 32))

\* The part of decryptEphemeralPrivKey after bs58.decode: payload is the
\* decoded byte string.
DecryptEphemeralPayload(payload, metaViewPriv, ephPub) ==
    LET encrypted == SliceFrom(payload, 24)
        priv      == to32u8(metaViewPriv)
        pub       == to32u8(ephPub)
    IN  IF ~priv.ok THEN priv
        ELSE IF ~pub.ok THEN pub
        ELSE LET shared == GetSharedSecret(priv.val, pub.val, TRUE)
             IN  IF ~shared.ok THEN shared
                 ELSE LET keyBytes    == KeyBytesOf(shared.val)
                          dec         == XorKeystream(encrypted, keyBytes)
                          ephPriv32   == Slice(dec, 0, 32)
                          receivedPub == SliceFrom(dec, 32)
                          computedPub == GetPublicKey(ephPriv32, TRUE)
                      IN  IF ~computedPub.ok THEN computedPub
                          ELSE IF ~(\A i \in 1..Len(computedPub.val) :
                                       /\ i <= Len(receivedPub)
                                       /\ computedPub.val[i] = receivedPub[i])
                          THEN Throw("Decryption failed - ephemeral public key mismatch")
                          ELSE Ok(ephPriv32)

\* decryptEphemeralPrivKey(encodedPayload, metaViewPriv, ephPub)
decryptEphemeralPrivKey(encodedPayload, metaViewPriv, ephPub) ==
    IF ~Bs58Valid(encodedPayload) THEN Throw("Non-base58 character")
    ELSE DecryptEphemeralPayload(Bs58Decode(encodedPayload), metaViewPriv, ephPub)

\* encryptNote(plaintext, ephPriv32, metaViewPub), with the nonce that
\* randomBytes(24) returned.
encryptNote(plaintext, ephPriv32, metaViewPub, nonce) ==
    LET priv == to32u8(ephPriv32)
        pub  == to32u8(metaViewPub)
    IN  IF ~priv.ok THEN priv
        ELSE IF ~pub.ok THEN pub
        ELSE LET shared == GetSharedSecret(priv.val, pub.val, TRUE)
             IN  IF ~shared.ok THEN shared
                 ELSE LET keyBytes       == KeyBytesOf(shared.val)
                          plaintextBytes == TextEncode(plaintext)
                          enc            == XorKeystream(plaintextBytes, keyBytes)
                      IN  Ok(nonce \o enc)

\* A decryptNote whose keystream also depends on the nonce: the key bytes
\* are XOR-ed with the first 24 bytes of the input, repeated.
decryptNote_NonceKeyed(encryptedBytes, metaViewPriv, ephPub) ==
    LET encrypted == SliceFrom(encryptedBytes, 24)
        priv      == to32u8(metaViewPriv)
        pub       == to32u8(ephPub)
    IN  IF ~priv.ok THEN priv
        ELSE IF ~pub.ok THEN pub
        ELSE LET shared == GetSharedSecret(priv.val, pub.val, TRUE)
             IN  IF ~shared.ok THEN shared
                 ELSE LET key      == KeyBytesOf(shared.val)
                          keyBytes == [i \in 1..Len(key) |->
                                          BitXor(key[i], encryptedBytes[((i - 1) % 24) + 1])]
                      IN  Ok(TextDecode(XorKeystream(encrypted, keyBytes)))

\* decryptNote(encryptedBytes, metaViewPriv, ephPub)
decryptNote(encryptedBytes, metaViewPriv, ephPub) ==
    LET encrypted == SliceFrom(encryptedBytes, 24)
        priv      == to32u8(metaViewPriv)
        pub       == to32u8(ephPub)
    IN  IF ~priv.ok THEN priv
        ELSE IF ~pub.ok THEN pub
        ELSE LET shared == GetSharedSecret(priv.val, pub.val, TRUE)
             IN  IF ~shared.ok THEN shared
                 ELSE LET keyBytes == KeyBytesOf(shared.val)
                          dec      == XorKeystream(encrypted, keyBytes)
                      IN  Ok(TextDecode(dec))

(***************************************************************************)
(* Stealth derivation                                                      *)
(***************************************************************************)
\* BigInt('0x' + hex(sha256(shared.slice(1)))) % secp.CURVE.n
TweakScalarOf(shared) == ModOfBytes(sha256(SliceFrom(shared, 1)), 1, 0, CurveN)

RECURSIVE NumToHexText(_)
\* BigInt.prototype.toString(16)
NumToHexText(x) ==
    IF x < 16 THEN <<HexDigits[x + 1]>>
    ELSE Append(NumToHexText(x \div 16), HexDigits[(x % 16) + 1])

\* str.padStart(width, '0')
PadStart(str, width) ==
    IF Len(str) >= width THEN str ELSE [i \in 1..(width - Len(str)) |-> "0"] \o str

\* The conversion without padStart: the hex text is cut into pairs from its
\* first digit, and parseInt of a missing pair is NaN, stored as 0.
ScalarToBytes32_NoPad(scalar) ==
    LET scalarHex == NumToHexText(scalar)
        digit(k)  == IF k <= Len(scalarHex) THEN HexValue(scalarHex[k]) ELSE 0
    IN  [i \in 1..32 |->
            IF 2 * i - 1 > Len(scalarHex) THEN 0
            ELSE IF 2 * i > Len(scalarHex) THEN digit(2 * i - 1)
            ELSE 16 * digit(2 * i - 1) + digit(2 * i)]

\* stealthPrivScalar.toString(16).padStart(64, '0'), then byte i is
\* parseInt(scalarHex.slice(2 * i, 2 * i + 2), 16).
ScalarToBytes32(scalar) ==
    LET scalarHex == PadStart(NumToHexText(scalar), 64)
    IN  [i \in 1..32 |-> 16 * HexValue(scalarHex[2 * i - 1]) + HexValue(scalarHex[2 * i])]

\* A sign slip in the scalar arithmetic: the tweak is subtracted.
StealthPrivScalarOf_Subtract(metaSpendScalar, tweakScalar) ==
    (metaSpendScalar + CurveN - tweakScalar) % CurveN

\* (metaSpendScalar + tweakScalar) % secp.CURVE.n
StealthPrivScalarOf(metaSpendScalar, tweakScalar) ==
    (metaSpendScalar + tweakScalar) % CurveN

\* The stealth point without the tweak: the meta-spend point itself.
StealthPointOf_NoTweak(metaSpendPoint, tweakPoint) == metaSpendPoint

\* metaSpendPoint.add(tweakPoint)
StealthPointOf(metaSpendPoint, tweakPoint) == PointAdd(metaSpendPoint, tweakPoint)

\* deriveStealthPub(metaSpendPubB58, metaViewPubB58, ephPriv32)
deriveStealthPub(metaSpendPubB58, metaViewPubB58, ephPriv32) ==
    LET priv == to32u8(ephPriv32)
        view == to32u8(metaViewPubB58)
    IN  IF ~priv.ok THEN priv
        ELSE IF ~view.ok THEN view
        ELSE LET shared == GetSharedSecret(priv.val, view.val, TRUE)
             IN  IF ~shared.ok THEN shared
                 ELSE LET tweakScalar == TweakScalarOf(shared.val)
                          tweakPoint  == PointMultiply(BASE, tweakScalar)
                          spend       == to32u8(metaSpendPubB58)
                      IN  IF ~tweakPoint.ok THEN tweakPoint
                          ELSE IF ~spend.ok THEN spend
                          ELSE LET metaSpendPoint == PointFromHex(spend.val)
                               IN  IF ~metaSpendPoint.ok THEN metaSpendPoint
                                   ELSE LET stealthPoint ==
                                                StealthPointOf(metaSpendPoint.val, tweakPoint.val)
                                            stealthPubKeyBytes ==
                                                PointToRawBytes(stealthPoint, TRUE)
                                            stealthAptosAddress ==
                                                secp256k1PointToAptosAddress(stealthPubKeyBytes)
                                        IN  IF ~stealthAptosAddress.ok THEN stealthAptosAddress
                                            ELSE Ok([stealthPubKeyB58 |-> Bs58Encode(stealthPubKeyBytes),
                                                     stealthAptosAddress |-> stealthAptosAddress.val,
                                                     stealthPubKeyBytes |-> stealthPubKeyBytes])

\* deriveStealthKeypair(metaSpendPriv, metaViewPriv, ephPub)
deriveStealthKeypair(metaSpendPriv, metaViewPriv, ephPub) ==
    LET view == to32u8(metaViewPriv)
        eph  == to32u8(ephPub)
    IN  IF ~view.ok THEN view
        ELSE IF ~eph.ok THEN eph
        ELSE LET shared == GetSharedSecret(view.val, eph.val, TRUE)
             IN  IF ~shared.ok THEN shared
                 ELSE LET tweakScalar        == TweakScalarOf(shared.val)
                          metaSpendPrivBytes == to32u8(metaSpendPriv)
                      IN  IF ~metaSpendPrivBytes.ok THEN metaSpendPrivBytes
                          ELSE LET metaSpendScalar ==
                                       ModOfBytes(metaSpendPrivBytes.val, 1, 0, CurveN)
                                   stealthPrivScalar ==
                                       StealthPrivScalarOf(metaSpendScalar, tweakScalar)
                                   stealthPrivBytes   == ScalarToBytes32(stealthPrivScalar)
                                   stealthPubKeyBytes == GetPublicKey(stealthPrivBytes, TRUE)
                               IN  IF ~stealthPubKeyBytes.ok THEN stealthPubKeyBytes
                                   ELSE LET stealthAddress == SdkAccountAddress(stealthPrivBytes)
                                        IN  IF ~stealthAddress.ok THEN stealthAddress
                                            ELSE Ok([stealthAddress |-> stealthAddress.val,
                                                     privateKey |-> stealthPrivBytes,
                                                     publicKeyBase58 |-> Bs58Encode(stealthPubKeyBytes.val)])

\* A deriveStealthPub that takes the meta-spend point from a fourth
\* argument (a private key) when the caller passes a usable one.
CallDeriveStealthPub_ReadsFourth(args) ==
    LET fourth == IF Len(args) >= 4 THEN to32u8(args[4]) ELSE Throw("absent")
        pub    == IF fourth.ok THEN GetPublicKey(fourth.val, TRUE) ELSE fourth
    IN  IF pub.ok THEN deriveStealthPub(U8(pub.val), args[2], args[3])
        ELSE deriveStealthPub(args[1], args[2], args[3])

\* pivy.deriveStealthPub(...args): the three declared parameters are bound
\* to the first three arguments, a missing one is undefined, and the
\* function body reads nothing else.
CallDeriveStealthPub(args) ==
    LET arg(i) == IF i <= Len(args) THEN args[i] ELSE UNDEFINED
    IN  deriveStealthPub(arg(1), arg(2), arg(3))

\* validateStealthMatch(payerAddress, receiverAddress)
validateStealthMatch(payerAddress, receiverAddress) == payerAddress = receiverAddress

\* getPubBytes(account): the compressed public key of the account's key.
getPubBytes(privBytes) == GetPublicKey(privBytes, TRUE)

(***************************************************************************)
(* State: the values one run of the demo flow holds.                       *)
(***************************************************************************)
VARIABLES
    metaSpendPriv,     \* receiver's meta-spend private key (32 bytes)
    metaViewPriv,      \* receiver's meta-view private key (32 bytes)
    ephPriv,           \* payer's ephemeral private key (32 bytes)
    metaSpendPubB58,   \* Base58 text of the meta-spend public key
    metaViewPubB58,    \* Base58 text of the meta-view public key
    ephPubB58,         \* Base58 text of the ephemeral public key
    stealthPub,        \* outcome of deriveStealthPub (payer)
    stealthKP,         \* outcome of deriveStealthKeypair (receiver)
    addressesMatch,    \* outcome of validateStealthMatch
    importedAddress,   \* outcome of the wallet import test
    memo,              \* outcome of encryptEphemeralPrivKey (Base58 text)
    decryptedEphPriv,  \* outcome of decryptEphemeralPrivKey on the memo
    tampered,          \* a memo with one bit flipped, and what decrypting it gave
    privateNote,       \* the note's text (UTF-16 code units)
    encryptedNote,     \* outcome of encryptNote
    decryptedNote,     \* outcome of decryptNote
    batch,             \* the ephemerals of a batch and their deriveStealthPub outcomes
    rawKey,            \* a key argument in the shape a caller passed it
    normalized,        \* outcome of to32u8(rawKey)
    suppliedDecrypt,   \* a decryption of the memo with a caller-chosen ephPub argument
    fourthCall,        \* a deriveStealthPub call made with a fourth argument
    renonced,          \* decryptions of a blob and of the same blob under another nonce
    addressText,       \* an authentication key and the two address texts made from it
    padCall,           \* a pad32 call: its argument before and after, and what it returned
    clientCall,        \* a call of the universal client: the asset type, the helpers invoked, the info reported
    coinBalance,       \* the CoinType balance of every account
    faBalance,         \* the fungible-asset balance of every account (primary stores)
    events,            \* the events the Move module has emitted, oldest first
    lastCall,          \* the last entry-function call: its arguments, its outcome, the balances before it
    txStatus,          \* the burn transaction on Sepolia: pending, success or reverted
    waitTx,            \* waitForTransaction: its position and its transactionReceipt
    iris               \* getAttestationFromIris: its position, attemptCount, attestationResponse and outcome

keyVars    == <<metaSpendPriv, metaViewPriv, ephPriv,
                metaSpendPubB58, metaViewPubB58, ephPubB58>>
deriveVars == <<stealthPub, stealthKP, addressesMatch, importedAddress>>
memoVars   == <<memo, decryptedEphPriv, tampered>>
noteVars   == <<privateNote, encryptedNote, decryptedNote>>
codecVars  == <<rawKey, normalized>>
argVars    == <<suppliedDecrypt, fourthCall, renonced>>
\* The variables of the key, memo and note flows together.
flowVars   == <<keyVars, deriveVars, memoVars, noteVars, batch, codecVars, argVars>>
toolVars   == <<addressText, padCall, clientCall>>
cctpVars   == <<txStatus, waitTx, iris>>
chainVars  == <<coinBalance, faBalance, events, lastCall>>
extVars    == <<addressText, padCall, clientCall, coinBalance, faBalance, events, lastCall, txStatus, waitTx, iris>>
vars       == <<keyVars, deriveVars, memoVars, noteVars, batch, codecVars, argVars, extVars>>

\* Account.generate({ scheme: Secp256k1Ecdsa }): a private key in 1..n-1.
PrivateKeys == {NumTo32b(k) : k \in 1..(CurveN - 1)}

\* bs58.encode(this.getPubBytes(account))
PubB58Of(privBytes) == Bs58Encode(getPubBytes(privBytes).val)

\* generateMetaKeys() and generateEphemeralKey() have returned.
InitKeys ==
    /\ metaSpendPriv \in PrivateKeys
    /\ metaViewPriv \in PrivateKeys
    /\ ephPriv \in PrivateKeys
    /\ metaSpendPubB58 = PubB58Of(metaSpendPriv)
    /\ metaViewPubB58 = PubB58Of(metaViewPriv)
    /\ ephPubB58 = PubB58Of(ephPriv)

(***************************************************************************)
(* The Move module pivy_stealth: accounts and balances.                    *)
(***************************************************************************)
\* The accounts that sign transactions (the payer's wallet and a stealth
\* account), and every account that holds a balance.
Signers  == {"alice", "stealth"}
Accounts == Signers \cup {"bob"}

\* The balances the accounts hold before the first call.
InitialCoinBalance == [a \in Accounts |-> IF a = "alice" THEN 2 ELSE 0]
InitialFaBalance   == [a \in Accounts |-> IF a = "stealth" THEN 1 ELSE 0]

(***************************************************************************)
(* The CCTP demo: waiting for a Sepolia transaction and for its            *)
(* attestation.                                                            *)
(***************************************************************************)
\* web3.eth.getTransactionReceipt: null while the transaction is not mined,
\* then a receipt whose status is 1 (success) or 0 (reverted).
NullReceipt     == [isNull |-> TRUE, status |-> 0]
Receipt(status) == [isNull |-> FALSE, status |-> status]

\* waitForTransaction has not been called.
WaitIdle == [pc |-> "idle", transactionReceipt |-> NullReceipt, polls |-> 0]

\* getAttestationFromIris has not been called.
IrisIdle ==
    [pc |-> "idle", attemptCount |-> 0,
     attestationResponse |-> [status |-> "pending", attestation |-> ""],
     polls |-> 0, fetchThrew |-> FALSE, returned |-> "", thrown |-> << >>]

\* Nothing formatted, padded, dispatched, submitted or polled yet.
ExtIdle ==
    /\ addressText = NONE
    /\ padCall = NONE
    /\ clientCall = NONE
    /\ coinBalance = InitialCoinBalance
    /\ faBalance = InitialFaBalance
    /\ events = << >>
    /\ lastCall = NONE
    /\ txStatus = "pending"
    /\ waitTx = WaitIdle
    /\ iris = IrisIdle

\* Nothing derived, encrypted or normalised yet.
Idle ==
    /\ stealthPub = NONE
    /\ stealthKP = NONE
    /\ addressesMatch = NONE
    /\ importedAddress = NONE
    /\ memo = NONE
    /\ decryptedEphPriv = NONE
    /\ tampered = NONE
    /\ encryptedNote = NONE
    /\ decryptedNote = NONE
    /\ batch = << >>
    /\ normalized = NONE
    /\ suppliedDecrypt = NONE
    /\ fourthCall = NONE
    /\ renonced = NONE
    /\ ExtIdle

Init ==
    /\ InitKeys
    /\ Idle
    /\ privateNote = << >>
    /\ rawKey = UNDEFINED

\* The payer derives the stealth address from the receiver's public keys.
DeriveStealthPub ==
    /\ stealthPub = NONE
    /\ stealthPub' = deriveStealthPub(Str(metaSpendPubB58), Str(metaViewPubB58), U8(ephPriv))
    /\ UNCHANGED <<keyVars, stealthKP, addressesMatch, importedAddress,
                   memoVars, noteVars, batch, codecVars, argVars, extVars>>

\* The receiver recovers the stealth keypair; the demo passes the private
\* keys as hex text and the ephemeral public key as Base58 text.
DeriveStealthKeypair ==
    /\ stealthKP = NONE
    /\ stealthKP' = deriveStealthKeypair(Str(ToHex(metaSpendPriv)),
                                         Str(ToHex(metaViewPriv)), Str(ephPubB58))
    /\ UNCHANGED <<keyVars, stealthPub, addressesMatch, importedAddress,
                   memoVars, noteVars, batch, codecVars, argVars, extVars>>

ValidateStealthMatch ==
    /\ stealthPub.ok /\ stealthKP.ok
    /\ addressesMatch = NONE
    /\ addressesMatch' = Ok(validateStealthMatch(stealthPub.val.stealthAptosAddress,
                                                 stealthKP.val.stealthAddress))
    /\ UNCHANGED <<keyVars, stealthPub, stealthKP, importedAddress,
                   memoVars, noteVars, batch, codecVars, argVars, extVars>>

\* The demo's wallet import test: the derived private key is imported into
\* the SDK and the address of the resulting account is read.
ImportWallet ==
    /\ stealthKP.ok
    /\ importedAddress = NONE
    /\ importedAddress' = SdkAccountAddress(stealthKP.val.privateKey)
    /\ UNCHANGED <<keyVars, stealthPub, stealthKP, addressesMatch,
                   memoVars, noteVars, batch, codecVars, argVars, extVars>>

Next ==
    \/ DeriveStealthPub
    \/ DeriveStealthKeypair
    \/ ValidateStealthMatch
    \/ ImportWallet

Spec == Init /\ [][Next]_vars

(***************************************************************************)
(* The memo: the ephemeral private key sent to the receiver.               *)
(***************************************************************************)
\* randomBytes(24): the nonces the runs draw.
Nonces == {Zeros(24), [i \in 1..24 |-> 255], [i \in 1..24 |-> (37 * i) % 256]}

\* The flows outside the derivation start from generated meta-view and
\* ephemeral keys; the meta-spend key plays no part in them.
InitViewAndEphemeral(viewKeys, ephKeys) ==
    /\ metaSpendPriv = NumTo32b(1)
    /\ metaViewPriv \in viewKeys
    /\ ephPriv \in ephKeys
    /\ metaSpendPubB58 = PubB58Of(metaSpendPriv)
    /\ metaViewPubB58 = PubB58Of(metaViewPriv)
    /\ ephPubB58 = PubB58Of(ephPriv)
    /\ Idle

InitMemo ==
    /\ InitViewAndEphemeral(PrivateKeys, PrivateKeys)
    /\ privateNote = << >>
    /\ rawKey = UNDEFINED

\* memo = encryptEphemeralPrivKey(ephPriv, metaViewPubB58)
EncryptWithNonce(nonce) ==
    /\ memo = NONE
    /\ memo' = encryptEphemeralPrivKey(U8(ephPriv), Str(metaViewPubB58), nonce)
    /\ UNCHANGED <<keyVars, deriveVars, decryptedEphPriv, tampered,
                   noteVars, batch, codecVars, argVars, extVars>>

EncryptEphemeralPrivKey == \E nonce \in Nonces : EncryptWithNonce(nonce)

\* decryptEphemeralPrivKey(memo, hex(metaViewPriv), ephPubB58)
DecryptEphemeralPrivKey ==
    /\ memo.ok
    /\ decryptedEphPriv = NONE
    /\ decryptedEphPriv' =
           decryptEphemeralPrivKey(memo.val, Str(ToHex(metaViewPriv)), Str(ephPubB58))
    /\ UNCHANGED <<keyVars, deriveVars, memo, tampered, noteVars, batch, codecVars, argVars, extVars>>

NextMemo ==
    \/ EncryptEphemeralPrivKey
    \/ DecryptEphemeralPrivKey

SpecMemo == InitMemo /\ [][NextMemo]_vars

(***************************************************************************)
(* A memo altered on its way to the receiver.                              *)
(***************************************************************************)
\* The keys of the runs in which the memo is altered.
TamperViewKeys == {NumTo32b(2), NumTo32b(5)}
TamperEphKeys  == {NumTo32b(1), NumTo32b(6)}

\* The payload with bit `bit` of the byte at offset `pos` inverted.
FlipBit(payload, pos, bit) ==
    [i \in 1..Len(payload) |->
        IF i = pos + 1 THEN BitXor(payload[i], 2 ^ bit) ELSE payload[i]]

InitTamper ==
    /\ InitViewAndEphemeral(TamperViewKeys, TamperEphKeys)
    /\ privateNote = << >>
    /\ rawKey = UNDEFINED

\* One bit of the memo's ciphertext region (offsets 24 .. 88 of the decoded
\* payload) is inverted, and the receiver decrypts the altered memo.
DecryptTampered ==
    /\ memo.ok
    /\ tampered = NONE
    /\ \E payload \in {Bs58Decode(memo.val)} :
           \E pos \in 24..(Len(payload) - 1), bit \in 0..7 :
               \E blob \in {Bs58Encode(FlipBit(payload, pos, bit))} :
                   tampered' =
                       [pos |-> pos, bit |-> bit, blob |-> blob,
                        result |-> decryptEphemeralPrivKey(
                                       blob, Str(ToHex(metaViewPriv)), Str(ephPubB58))]
    /\ UNCHANGED <<keyVars, deriveVars, memo, decryptedEphPriv,
                   noteVars, batch, codecVars, argVars, extVars>>

NextTamper ==
    \/ EncryptWithNonce([i \in 1..24 |-> (37 * i) % 256])
    \/ DecryptTampered

SpecTamper == InitTamper /\ [][NextTamper]_vars

(***************************************************************************)
(* The private note.                                                       *)
(***************************************************************************)
\* Longest note, in UTF-16 code units, among the notes enumerated in full.
MaxNoteUnits == 2

\* "A", e-acute, the euro sign, U+FEFF, and the two halves of U+1F389.
NoteAlphabet == {65, 233, 8364, BOM, 55356, 57225}

\* The start of the demo's note (U+1F389, then " Welcome"), and a note
\* longer than the 32 key bytes.
DemoNote == <<55356, 57225, 32, 87, 101, 108, 99, 111, 109, 101>>
LongNote == [i \in 1..40 |-> 97 + (i % 26)]

Notes == UNION {[1..n -> NoteAlphabet] : n \in 0..MaxNoteUnits} \cup {DemoNote, LongNote}

NoteViewKeys == {NumTo32b(3), NumTo32b(4)}

InitNote ==
    /\ InitViewAndEphemeral(NoteViewKeys, PrivateKeys)
    /\ privateNote \in Notes
    /\ rawKey = UNDEFINED

\* encryptedNote = encryptNote(privateNote, ephPriv, metaViewPubB58)
EncryptNote ==
    /\ encryptedNote = NONE
    /\ \E nonce \in Nonces :
           encryptedNote' = encryptNote(privateNote, U8(ephPriv), Str(metaViewPubB58), nonce)
    /\ UNCHANGED <<keyVars, deriveVars, memoVars, privateNote, decryptedNote,
                   batch, codecVars, argVars, extVars>>

\* decryptNote(encryptedNote, hex(metaViewPriv), ephPubB58)
DecryptNote ==
    /\ encryptedNote.ok
    /\ decryptedNote = NONE
    /\ decryptedNote' =
           decryptNote(encryptedNote.val, Str(ToHex(metaViewPriv)), Str(ephPubB58))
    /\ UNCHANGED <<keyVars, deriveVars, memoVars, privateNote, encryptedNote,
                   batch, codecVars, argVars, extVars>>

NextNote ==
    \/ EncryptNote
    \/ DecryptNote

SpecNote == InitNote /\ [][NextNote]_vars

(***************************************************************************)
(* A batch of payments to one receiver, each with a fresh ephemeral key.   *)
(***************************************************************************)
\* Number of payments in a batch.
MaxBatch == 2

InitBatch ==
    /\ metaSpendPriv \in PrivateKeys
    /\ metaViewPriv \in PrivateKeys
    /\ ephPriv = NumTo32b(1)
    /\ metaSpendPubB58 = PubB58Of(metaSpendPriv)
    /\ metaViewPubB58 = PubB58Of(metaViewPriv)
    /\ ephPubB58 = PubB58Of(ephPriv)
    /\ Idle
    /\ privateNote = << >>
    /\ rawKey = UNDEFINED

\* generateEphemeralKey() returns a key not used in the batch before, and
\* the payer calls deriveStealthPub(metaSpendPubB58, metaViewPubB58, e).
DeriveForEphemeral ==
    /\ Len(batch) < MaxBatch
    /\ \E e \in PrivateKeys :
           /\ \A i \in 1..Len(batch) : batch[i].ephPriv # e
           /\ batch' = Append(batch,
                  [ephPriv |-> e,
                   out |-> deriveStealthPub(Str(metaSpendPubB58), Str(metaViewPubB58), U8(e))])
    /\ UNCHANGED <<keyVars, deriveVars, memoVars, noteVars, codecVars, argVars, extVars>>

NextBatch == DeriveForEphemeral

SpecBatch == InitBatch /\ [][NextBatch]_vars

(***************************************************************************)
(* Key normalisation: to32u8 on the shapes a caller may pass.              *)
(***************************************************************************)
\* The text made of the character c, n times.
Repeat(c, n) == [i \in 1..n |-> c]

\* Buffer.from(bytes).toString('hex').toUpperCase()
ToHexUpper(bytes) ==
    [i \in 1..(2 * Len(bytes)) |->
        LET b == bytes[(i + 1) \div 2]
        IN  IF i % 2 = 1 THEN HexUpper[(b \div 16) + 1] ELSE HexUpper[(b % 16) + 1]]

\* The shapes of one key: raw bytes, hex text in both cases, hex text that
\* lost its last digit, Base58 text, and JSON-serialised Buffers, for the
\* 32-byte private key and the 33-byte public key.
ShapesOfKey(priv) ==
    LET pub == getPubBytes(priv).val
    IN  { U8(priv), U8(pub),
          Str(ToHex(priv)), Str(ToHexUpper(priv)),
          Str(Slice(ToHex(priv), 0, 63)),
          Str(Bs58Encode(priv)), Str(Bs58Encode(pub)),
          Obj("Buffer", priv), Obj("Buffer", pub), Obj("Object", priv) }

\* Texts that are not keys, and values that are neither text nor bytes.
OtherArguments ==
    { Str(<< >>), U8(<< >>), UNDEFINED, Obj("", << >>), Obj("Buffer", << >>),
      Str(Repeat("a", 63)), Str(Repeat("F", 63)), Str(Repeat("0", 63)),
      Str(Repeat("g", 64)), Str(Repeat("z", 64)), Str(Repeat("O", 64)),
      Str(Repeat("a", 63) \o <<"!">>), Str(Repeat("a", 65)),
      U8(Slice(NumTo32b(5), 0, 31)), U8(NumTo32b(5) \o NumTo32b(3)),
      Obj("Buffer", Slice(NumTo32b(5), 0, 31)) }

KeyArguments == UNION {ShapesOfKey(priv) : priv \in PrivateKeys} \cup OtherArguments

InitCodec ==
    /\ InitViewAndEphemeral({NumTo32b(1)}, {NumTo32b(1)})
    /\ privateNote = << >>
    /\ rawKey \in KeyArguments

\* to32u8(rawKey)
Normalize ==
    /\ normalized = NONE
    /\ normalized' = to32u8(rawKey)
    /\ UNCHANGED <<keyVars, deriveVars, memoVars, noteVars, batch, rawKey, argVars, extVars>>

NextCodec == Normalize

SpecCodec == InitCodec /\ [][NextCodec]_vars

(***************************************************************************)
(* Derivation with scalars outside 1 .. n-1.                               *)
(***************************************************************************)
\* Largest small scalar a caller passes; CurveN and above are out of range.
MaxScalar == 8

\* The 32 bytes 0xff: a scalar above the group order.
OversizeScalar == [i \in 1..32 |-> 255]

\* 32-byte values a caller may hold as a private scalar.
ScalarInputs == {NumTo32b(k) : k \in 0..MaxScalar} \cup {OversizeScalar}

\* The Base58 public key of a private key; the empty text when the scalar
\* has no public key.
PubTextOf(priv) ==
    LET pub == getPubBytes(priv)
    IN  IF pub.ok THEN Bs58Encode(pub.val) ELSE << >>

InitScalars ==
    /\ metaSpendPriv \in ScalarInputs
    /\ metaViewPriv \in ScalarInputs
    /\ ephPriv \in ScalarInputs
    /\ metaSpendPubB58 = PubTextOf(metaSpendPriv)
    /\ metaViewPubB58 = PubTextOf(metaViewPriv)
    /\ ephPubB58 = PubTextOf(ephPriv)
    /\ Idle
    /\ privateNote = << >>
    /\ rawKey = UNDEFINED

\* A payer who holds the receiver's published keys calls
\* deriveStealthPub(metaSpendPubB58, metaViewPubB58, ephPriv).
PayerDerives ==
    /\ stealthPub = NONE
    /\ metaSpendPubB58 # << >> /\ metaViewPubB58 # << >>
    /\ stealthPub' = deriveStealthPub(Str(metaSpendPubB58), Str(metaViewPubB58), U8(ephPriv))
    /\ UNCHANGED <<keyVars, stealthKP, addressesMatch, importedAddress,
                   memoVars, noteVars, batch, codecVars, argVars, extVars>>

\* A receiver who was sent an ephemeral public key calls
\* deriveStealthKeypair(hex(metaSpendPriv), hex(metaViewPriv), ephPubB58).
ReceiverDerives ==
    /\ stealthKP = NONE
    /\ ephPubB58 # << >>
    /\ stealthKP' = deriveStealthKeypair(Str(ToHex(metaSpendPriv)),
                                         Str(ToHex(metaViewPriv)), Str(ephPubB58))
    /\ UNCHANGED <<keyVars, stealthPub, addressesMatch, importedAddress,
                   memoVars, noteVars, batch, codecVars, argVars, extVars>>

NextScalars ==
    \/ PayerDerives
    \/ ReceiverDerives

SpecScalars == InitScalars /\ [][NextScalars]_vars

(***************************************************************************)
(* The memo decrypted with an ephemeral public key the caller chose.       *)
(***************************************************************************)
\* decryptEphemeralPrivKey(memo, hex(metaViewPriv), ephPub) where ephPub is
\* the Base58 text of some valid public key, the right one or another.
DecryptWithSuppliedPub ==
    /\ memo.ok
    /\ suppliedDecrypt = NONE
    /\ \E priv \in PrivateKeys :
           \E pub \in {PubB58Of(priv)} :
               suppliedDecrypt' =
                   [ephPub |-> pub,
                    result |-> decryptEphemeralPrivKey(
                                   memo.val, Str(ToHex(metaViewPriv)), Str(pub))]
    /\ UNCHANGED <<keyVars, deriveVars, memoVars, noteVars, batch, codecVars,
                   fourthCall, renonced, extVars>>

NextSupplied ==
    \/ EncryptEphemeralPrivKey
    \/ DecryptWithSuppliedPub

SpecSupplied == InitMemo /\ [][NextSupplied]_vars

(***************************************************************************)
(* deriveStealthPub called with a fourth argument.                         *)
(***************************************************************************)
\* Values a caller may pass as fourth argument: the receiver's meta-spend
\* private key as the demo does, in bytes or in hex, another private key,
\* undefined, or an unrelated object.
FourthArguments ==
    { U8(metaSpendPriv), Str(ToHex(metaSpendPriv)), U8(metaViewPriv),
      U8(ephPriv), UNDEFINED, Obj("Object", << >>) }

\* The payer calls deriveStealthPub with three arguments and again with a
\* fourth one.
DeriveWithFourth ==
    /\ fourthCall = NONE
    /\ \E fourth \in FourthArguments :
           LET args == <<Str(metaSpendPubB58), Str(metaViewPubB58), U8(ephPriv)>>
           IN  fourthCall' =
                   [fourth |-> fourth,
                    three  |-> CallDeriveStealthPub(args),
                    four   |-> CallDeriveStealthPub(Append(args, fourth))]
    /\ UNCHANGED <<keyVars, deriveVars, memoVars, noteVars, batch, codecVars,
                   suppliedDecrypt, renonced, extVars>>

NextFourth == DeriveWithFourth

SpecFourth == Init /\ [][NextFourth]_vars

(***************************************************************************)
(* A blob whose nonce was replaced before decryption.                      *)
(***************************************************************************)
NonceViewKeys == {NumTo32b(2), NumTo32b(4)}
NonceEphKeys  == {NumTo32b(3), NumTo32b(5)}

\* The view keys a receiver may decrypt with: the right one, another valid
\* key, and the zero scalar.
DecryptingViewKeys == {metaViewPriv, NumTo32b(1), NumTo32b(0)}

\* The blob with its first 24 bytes replaced by nonce.
WithNonce(blob, nonce) == nonce \o SliceFrom(blob, 24)

InitNonce ==
    /\ InitViewAndEphemeral(NonceViewKeys, NonceEphKeys)
    /\ privateNote \in {DemoNote, LongNote}
    /\ rawKey = UNDEFINED

\* decryptNote on the encrypted note and on the same bytes under another
\* nonce, with the same keys.
RenonceNote ==
    /\ encryptedNote.ok
    /\ renonced = NONE
    /\ \E nonce \in Nonces, view \in DecryptingViewKeys :
           \E other \in {WithNonce(encryptedNote.val, nonce)} :
               renonced' =
                   [of |-> "note", nonce |-> nonce, view |-> view,
                    same |-> (other = encryptedNote.val),
                    original |-> decryptNote(encryptedNote.val,
                                             Str(ToHex(view)), Str(ephPubB58)),
                    other |-> decryptNote(other, Str(ToHex(view)), Str(ephPubB58))]
    /\ UNCHANGED <<keyVars, deriveVars, memoVars, noteVars, batch, codecVars,
                   suppliedDecrypt, fourthCall, extVars>>

\* decryptEphemeralPrivKey on the memo and on the memo whose decoded bytes
\* carry another nonce, with the same keys.
RenonceMemo ==
    /\ memo.ok
    /\ renonced = NONE
    /\ \E nonce \in Nonces, view \in DecryptingViewKeys :
           \E other \in {Bs58Encode(WithNonce(Bs58Decode(memo.val), nonce))} :
               renonced' =
                   [of |-> "memo", nonce |-> nonce, view |-> view,
                    same |-> (other = memo.val),
                    original |-> decryptEphemeralPrivKey(memo.val,
                                             Str(ToHex(view)), Str(ephPubB58)),
                    other |-> decryptEphemeralPrivKey(other,
                                             Str(ToHex(view)), Str(ephPubB58))]
    /\ UNCHANGED <<keyVars, deriveVars, memoVars, noteVars, batch, codecVars,
                   suppliedDecrypt, fourthCall, extVars>>

\* A run encrypts the memo or the note, and then decrypts it twice.
NextNonce ==
    \/ (encryptedNote = NONE /\ EncryptEphemeralPrivKey)
    \/ (memo = NONE /\ EncryptNote)
    \/ RenonceMemo
    \/ RenonceNote

SpecNonce == InitNonce /\ [][NextNonce]_vars

(***************************************************************************)
(* The layout of the two encrypted blobs.                                  *)
(***************************************************************************)
\* "Hello Aptos"
HelloNote == <<72, 101, 108, 108, 111, 32, 65, 112, 116, 111, 115>>

BlobNotes    == {<< >>, HelloNote, DemoNote, LongNote, <<8364, 55356>>}
BlobViewKeys == {NumTo32b(2), NumTo32b(5)}
BlobEphKeys  == {NumTo32b(1), NumTo32b(3), NumTo32b(6)}

InitBlobs ==
    /\ InitViewAndEphemeral(BlobViewKeys, BlobEphKeys)
    /\ privateNote \in BlobNotes
    /\ rawKey = UNDEFINED

NextBlobs ==
    \/ EncryptEphemeralPrivKey
    \/ EncryptNote

SpecBlobs == InitBlobs /\ [][NextBlobs]_vars

\* K of the run: SHA-256 of the 32-byte X coordinate of e * V.
KeyOfRun ==
    sha256(NumTo32b(ScalarMul(ephPriv[31] * 256 + ephPriv[32],
                              PointFromHex(Bs58Decode(metaViewPubB58)).val)[1]))

(***************************************************************************)
(* The text of an address, as the payer and as the receiver write it.      *)
(***************************************************************************)
\* The flows below start from one fixed key set; the keys play no part.
InitFixedKeys ==
    /\ InitViewAndEphemeral({NumTo32b(1)}, {NumTo32b(1)})
    /\ privateNote = << >>
    /\ rawKey = UNDEFINED

\* '0x' + Buffer.from(authKey).toString('hex')
PayerAddressText(authKey) == <<"0", "x">> \o ToHex(authKey)

\* account.accountAddress.toString()
ReceiverAddressText(authKey) == AccountAddressToString(authKey)

\* Largest number written into the low bytes of an enumerated key.
MaxAuthKey == 80

\* The 32-byte authentication keys SHA3-256 may return: small numbers (long
\* runs of leading zero bytes), digests, and the all-ones key.
AuthKeys ==
    {NumTo32b(k) : k \in 0..MaxAuthKey}
        \cup {sha3_256(<<k>>) : k \in 0..20}
        \cup {<<0>> \o Slice(sha3_256(<<k>>), 1, 32) : k \in 0..5}
        \cup {[i \in 1..32 |-> 255]}

\* Both sides format the address of one authentication key, and the two
\* texts are compared as validateStealthMatch compares them.
FormatAddress ==
    /\ addressText = NONE
    /\ \E authKey \in AuthKeys :
           addressText' =
               [authKey |-> authKey,
                stealthAptosAddress |-> PayerAddressText(authKey),
                stealthAddress |-> ReceiverAddressText(authKey),
                match |-> validateStealthMatch(PayerAddressText(authKey),
                                               ReceiverAddressText(authKey))]
    /\ UNCHANGED <<flowVars, padCall, clientCall, chainVars, cctpVars>>

NextAddress == FormatAddress

SpecAddress == InitFixedKeys /\ [][NextAddress]_vars

(***************************************************************************)
(* pad32                                                                   *)
(***************************************************************************)
\* Longest array handed to pad32.
MaxPadLen == 34

\* Byte arrays of every length up to MaxPadLen, with no zero byte, with
\* zero bytes inside, and all zero; and the demo's label.
PadInputs ==
    {[i \in 1..n |-> 1 + ((37 * i) % 255)] : n \in 0..MaxPadLen}
        \cup {[i \in 1..n |-> (i % 3) * 100] : n \in 0..MaxPadLen}
        \cup {Zeros(n) : n \in 0..MaxPadLen}
        \cup {TextEncode(<<80, 73, 86, 89>>)}

\* pad32(u8): slice() copies, so the argument is what it was.
Pad32 ==
    /\ padCall = NONE
    /\ \E u8 \in PadInputs :
           padCall' = [u8 |-> u8, after |-> u8, out |-> pad32(u8)]
    /\ UNCHANGED <<flowVars, addressText, clientCall, chainVars, cctpVars>>

NextPad == Pad32

SpecPad == InitFixedKeys /\ [][NextPad]_vars

(***************************************************************************)
(* PIVYUniversalClient: one interface over the Coin and the Fungible Asset *)
(* entry points.                                                           *)
(***************************************************************************)
\* A pattern that is case-sensitive: /^0x[0-9a-f]{64}$/ without the i flag.
isFungibleAsset_CaseSensitive(assetType) ==
    /\ Len(assetType) = 66
    /\ assetType[1] = "0"
    /\ assetType[2] = "x"
    /\ \A i \in 3..66 : \E d \in 1..16 : HexDigits[d] = assetType[i]

\* /^0x[0-9a-f]{64}$/i.test(assetType): the i flag applies to the whole
\* pattern, the x of the prefix included.
isFungibleAsset(assetType) ==
    /\ Len(assetType) = 66
    /\ assetType[1] = "0"
    /\ assetType[2] \in {"x", "X"}
    /\ \A i \in 3..66 : IsHexChar(assetType[i])

\* getAssetTypeInfo(assetType)
getAssetTypeInfo(assetType) ==
    [assetType       |-> assetType,
     isFungibleAsset |-> isFungibleAsset(assetType),
     detectedAs      |-> IF isFungibleAsset(assetType) THEN "Fungible Asset" ELSE "Coin",
     functionToUse   |-> IF isFungibleAsset(assetType) THEN "announce_fa/withdraw_fa"
                         ELSE "announce<T>/withdraw<T>"]

\* The helpers announce(params) invokes, in order.
announce(assetType) ==
    IF isFungibleAsset(assetType) THEN <<"announceFa">> ELSE <<"announceCoin">>

\* The helpers withdraw(params) invokes, in order.
withdraw(assetType) ==
    IF isFungibleAsset(assetType) THEN <<"withdrawFa">> ELSE <<"withdrawCoin">>

\* Lengths of the digit runs tried around the 64 the pattern asks for.
MaxAssetDigits == 65

AssetDigitRuns ==
    UNION {{[i \in 1..n |-> HexDigits[(i % 16) + 1]],
            [i \in 1..n |-> HexUpper[(i % 16) + 1]],
            [i \in 1..n |-> "0"],
            [i \in 1..n |-> IF i = n THEN "g" ELSE "a"],
            [i \in 1..n |-> IF i = 2 THEN ":" ELSE "1"]} : n \in {1, 40} \cup 63..MaxAssetDigits}

\* "0x1::aptos_coin::AptosCoin"
AptosCoinType ==
    <<"0", "x", "1", ":", ":", "a", "p", "t", "o", "s", "_", "c", "o", "i", "n",
      ":", ":", "A", "p", "t", "o", "s", "C", "o", "i", "n">>

\* The asset types callers pass: object addresses in both cases, with and
\* without a prefix, with a trailing character, and a coin type.
AssetTypes ==
    {prefix \o digits \o suffix :
        prefix \in {<<"0", "x">>, <<"0", "X">>, <<"1", "x">>, << >>},
        digits \in AssetDigitRuns,
        suffix \in {<< >>, <<" ">>}}
        \cup {AptosCoinType}

\* client.announce({assetType, ...}) and the debug info for the same type.
Announce ==
    /\ clientCall = NONE
    /\ \E assetType \in AssetTypes :
           clientCall' = [op |-> "announce", assetType |-> assetType,
                          invoked |-> announce(assetType),
                          info |-> getAssetTypeInfo(assetType)]
    /\ UNCHANGED <<flowVars, addressText, padCall, chainVars, cctpVars>>

\* client.withdraw({assetType, ...}) and the debug info for the same type.
Withdraw ==
    /\ clientCall = NONE
    /\ \E assetType \in AssetTypes :
           clientCall' = [op |-> "withdraw", assetType |-> assetType,
                          invoked |-> withdraw(assetType),
                          info |-> getAssetTypeInfo(assetType)]
    /\ UNCHANGED <<flowVars, addressText, padCall, chainVars, cctpVars>>

NextClient ==
    \/ Announce
    \/ Withdraw

SpecClient == InitFixedKeys /\ [][NextClient]_vars

(***************************************************************************)
(* The Move module pivy_stealth: entry functions.  A transaction that      *)
(* aborts leaves the chain as it was.  The balances of an asset sum to a   *)
(* supply below 2^64, so that no u64 addition overflows.                   *)
(***************************************************************************)
EInvalidAmount     == 0
EInsufficientFunds == 1
EPayloadTooLong    == 2

\* What an entry function leaves behind: an abort code, or the balances of
\* the asset it moves and the events it emitted.
Aborted(code) == [ok |-> FALSE, code |-> code, balance |-> << >>, emitted |-> << >>]
Committed(balance, emitted) ==
    [ok |-> TRUE, code |-> 0, balance |-> balance, emitted |-> emitted]

\* coin::transfer / primary_fungible_store::transfer: withdraw amount from
\* the signer's store, then deposit it into the recipient's.
Transfer(balance, from, to, amount) ==
    LET withdrawn == [balance EXCEPT ![from] = @ - amount]
    IN  [withdrawn EXCEPT ![to] = @ + amount]

\* timestamp::now_seconds()
NowSeconds == 1700000000

PaymentEvent(stealth_owner, payer, amount, label, eph_pubkey, payload, note) ==
    [type |-> "PaymentEvent", stealth_owner |-> stealth_owner, payer |-> payer,
     amount |-> amount, coin_type |-> "CoinType", label |-> label,
     eph_pubkey |-> eph_pubkey, payload |-> payload, note |-> note,
     timestamp |-> NowSeconds]

WithdrawEvent(stealth_owner, amount, destination) ==
    [type |-> "WithdrawEvent", stealth_owner |-> stealth_owner, amount |-> amount,
     coin_type |-> "CoinType", destination |-> destination, timestamp |-> NowSeconds]

PaymentEventFA(stealth_owner, payer, amount, label, eph_pubkey, payload, note) ==
    [type |-> "PaymentEventFA", stealth_owner |-> stealth_owner, payer |-> payer,
     amount |-> amount, fa_metadata |-> "fa_metadata", fa_name |-> "fa_name",
     label |-> label, eph_pubkey |-> eph_pubkey, payload |-> payload, note |-> note,
     timestamp |-> NowSeconds]

WithdrawEventFA(stealth_owner, amount, destination) ==
    [type |-> "WithdrawEventFA", stealth_owner |-> stealth_owner, amount |-> amount,
     fa_metadata |-> "fa_metadata", fa_name |-> "fa_name",
     destination |-> destination, timestamp |-> NowSeconds]

\* announce<CoinType>(account, stealth_owner, amount, label, eph_pubkey, payload, note)
announce_T(balance, account, stealth_owner, amount, label, eph_pubkey, payload, note) ==
    IF ~(amount > 0) THEN Aborted(EInvalidAmount)
    ELSE IF ~(Len(payload) <= 121) THEN Aborted(EPayloadTooLong)
    ELSE IF ~(Len(note) <= 256) THEN Aborted(EPayloadTooLong)
    ELSE Committed(balance, <<PaymentEvent(stealth_owner, account, amount,
                                           label, eph_pubkey, payload, note)>>)

\* A pay<CoinType> that moves the coins whatever the payer holds.
pay_T_NoBalanceCheck(balance, account, stealth_owner, amount, label, eph_pubkey, payload, note) ==
    IF ~(amount > 0) THEN Aborted(EInvalidAmount)
    ELSE IF ~(Len(payload) <= 121) THEN Aborted(EPayloadTooLong)
    ELSE IF ~(Len(note) <= 256) THEN Aborted(EPayloadTooLong)
    ELSE Committed(Transfer(balance, account, stealth_owner, amount),
                   <<PaymentEvent(stealth_owner, account, amount,
                                  label, eph_pubkey, payload, note)>>)

\* pay<CoinType>(account, stealth_owner, amount, label, eph_pubkey, payload, note)
pay_T(balance, account, stealth_owner, amount, label, eph_pubkey, payload, note) ==
    IF ~(amount > 0) THEN Aborted(EInvalidAmount)
    ELSE IF ~(Len(payload) <= 121) THEN Aborted(EPayloadTooLong)
    ELSE IF ~(Len(note) <= 256) THEN Aborted(EPayloadTooLong)
    ELSE IF ~(balance[account] >= amount) THEN Aborted(EInsufficientFunds)
    ELSE Committed(Transfer(balance, account, stealth_owner, amount),
                   <<PaymentEvent(stealth_owner, account, amount,
                                  label, eph_pubkey, payload, note)>>)

\* announce_withdraw<CoinType>(account, amount, destination)
announce_withdraw_T(balance, account, amount, destination) ==
    IF ~(amount > 0) THEN Aborted(EInvalidAmount)
    ELSE Committed(balance, <<WithdrawEvent(account, amount, destination)>>)

\* A withdraw<CoinType> that moves the coins whatever the signer holds.
withdraw_T_NoBalanceCheck(balance, account, amount, destination) ==
    IF ~(amount > 0) THEN Aborted(EInvalidAmount)
    ELSE Committed(Transfer(balance, account, destination, amount),
                   <<WithdrawEvent(account, amount, destination)>>)

\* withdraw<CoinType>(account, amount, destination)
withdraw_T(balance, account, amount, destination) ==
    IF ~(amount > 0) THEN Aborted(EInvalidAmount)
    ELSE IF ~(balance[account] >= amount) THEN Aborted(EInsufficientFunds)
    ELSE Committed(Transfer(balance, account, destination, amount),
                   <<WithdrawEvent(account, amount, destination)>>)

\* An announce_fa that also transfers, as pay_fa does.
announce_fa_Transfers(balance, account, stealth_owner, amount, label, eph_pubkey, payload, note) ==
    IF ~(amount > 0) THEN Aborted(EInvalidAmount)
    ELSE IF ~(Len(payload) <= 121) THEN Aborted(EPayloadTooLong)
    ELSE IF ~(Len(note) <= 256) THEN Aborted(EPayloadTooLong)
    ELSE IF ~(balance[account] >= amount) THEN Aborted(EInsufficientFunds)
    ELSE Committed(Transfer(balance, account, stealth_owner, amount),
                   <<PaymentEventFA(stealth_owner, account, amount,
                                    label, eph_pubkey, payload, note)>>)

\* announce_fa(account, stealth_owner, fa_metadata, amount, label, eph_pubkey, payload, note)
announce_fa(balance, account, stealth_owner, amount, label, eph_pubkey, payload, note) ==
    IF ~(amount > 0) THEN Aborted(EInvalidAmount)
    ELSE IF ~(Len(payload) <= 121) THEN Aborted(EPayloadTooLong)
    ELSE IF ~(Len(note) <= 256) THEN Aborted(EPayloadTooLong)
    ELSE Committed(balance, <<PaymentEventFA(stealth_owner, account, amount,
                                             label, eph_pubkey, payload, note)>>)

\* A pay_fa without the check of the note's length.
pay_fa_NoNoteCheck(balance, account, stealth_owner, amount, label, eph_pubkey, payload, note) ==
    IF ~(amount > 0) THEN Aborted(EInvalidAmount)
    ELSE IF ~(Len(payload) <= 121) THEN Aborted(EPayloadTooLong)
    ELSE IF ~(balance[account] >= amount) THEN Aborted(EInsufficientFunds)
    ELSE Committed(Transfer(balance, account, stealth_owner, amount),
                   <<PaymentEventFA(stealth_owner, account, amount,
                                    label, eph_pubkey, payload, note)>>)

\* pay_fa(account, stealth_owner, fa_metadata, amount, label, eph_pubkey, payload, note)
pay_fa(balance, account, stealth_owner, amount, label, eph_pubkey, payload, note) ==
    IF ~(amount > 0) THEN Aborted(EInvalidAmount)
    ELSE IF ~(Len(payload) <= 121) THEN Aborted(EPayloadTooLong)
    ELSE IF ~(Len(note) <= 256) THEN Aborted(EPayloadTooLong)
    ELSE IF ~(balance[account] >= amount) THEN Aborted(EInsufficientFunds)
    ELSE Committed(Transfer(balance, account, stealth_owner, amount),
                   <<PaymentEventFA(stealth_owner, account, amount,
                                    label, eph_pubkey, payload, note)>>)

\* announce_withdraw_fa(account, fa_metadata, amount, destination)
announce_withdraw_fa(balance, account, amount, destination) ==
    IF ~(amount > 0) THEN Aborted(EInvalidAmount)
    ELSE Committed(balance, <<WithdrawEventFA(account, amount, destination)>>)

\* withdraw_fa(account, fa_metadata, amount, destination)
withdraw_fa(balance, account, amount, destination) ==
    IF ~(amount > 0) THEN Aborted(EInvalidAmount)
    ELSE IF ~(balance[account] >= amount) THEN Aborted(EInsufficientFunds)
    ELSE Committed(Transfer(balance, account, destination, amount),
                   <<WithdrawEventFA(account, amount, destination)>>)

(***************************************************************************)
(* Transactions calling the Move module.                                   *)
(***************************************************************************)
\* The number of events after which no further transaction is submitted.
MaxEvents == 1

\* The u64 amounts the transactions name: zero, and one unit, which the
\* initial balances hold in part, exactly, or not at all.
Amounts == {0, 1}

\* The label, eph_pubkey, payload and note vectors callers send: the sizes
\* the events document, the longest payload and note, one byte more than
\* each of them, and a label and key of other sizes.
EventFields ==
    {[label |-> Zeros(32), eph_pubkey |-> Zeros(33), payload |-> Zeros(121), note |-> Zeros(256)],
     [label |-> Zeros(32), eph_pubkey |-> Zeros(33), payload |-> Zeros(122), note |-> Zeros(256)],
     [label |-> Zeros(32), eph_pubkey |-> Zeros(33), payload |-> Zeros(121), note |-> Zeros(257)],
     [label |-> Zeros(3), eph_pubkey |-> Zeros(65), payload |-> << >>, note |-> << >>]}

\* A withdrawal carries no label, key, payload or note.
NoFields == [label |-> << >>, eph_pubkey |-> << >>, payload |-> << >>, note |-> << >>]

\* The chain after a transaction: an abort commits nothing.
Submit(fn, account, other, amount, fields, result, asset) ==
    /\ Len(events) < MaxEvents
    /\ lastCall' = [fn |-> fn, account |-> account, other |-> other, amount |-> amount,
                    sizes |-> [k \in DOMAIN fields |-> Len(fields[k])],
                    ok |-> result.ok, code |-> result.code,
                    coinBefore |-> coinBalance, faBefore |-> faBalance,
                    eventsBefore |-> Len(events)]
    /\ events' = IF result.ok THEN events \o result.emitted ELSE events
    /\ coinBalance' = IF result.ok /\ asset = "coin" THEN result.balance ELSE coinBalance
    /\ faBalance' = IF result.ok /\ asset = "fa" THEN result.balance ELSE faBalance
    /\ UNCHANGED <<flowVars, toolVars, cctpVars>>

CallAnnounce ==
    \E account \in Signers, stealth_owner \in Accounts, amount \in Amounts,
       f \in EventFields :
        Submit("announce", account, stealth_owner, amount, f,
               announce_T(coinBalance, account, stealth_owner, amount,
                          f.label, f.eph_pubkey, f.payload, f.note), "coin")

CallPay ==
    \E account \in Signers, stealth_owner \in Accounts, amount \in Amounts,
       f \in EventFields :
        Submit("pay", account, stealth_owner, amount, f,
               pay_T(coinBalance, account, stealth_owner, amount,
                     f.label, f.eph_pubkey, f.payload, f.note), "coin")

CallAnnounceWithdraw ==
    \E account \in Signers, destination \in Accounts, amount \in Amounts :
        Submit("announce_withdraw", account, destination, amount, NoFields,
               announce_withdraw_T(coinBalance, account, amount, destination), "coin")

CallWithdraw ==
    \E account \in Signers, destination \in Accounts, amount \in Amounts :
        Submit("withdraw", account, destination, amount, NoFields,
               withdraw_T(coinBalance, account, amount, destination), "coin")

CallAnnounceFa ==
    \E account \in Signers, stealth_owner \in Accounts, amount \in Amounts,
       f \in EventFields :
        Submit("announce_fa", account, stealth_owner, amount, f,
               announce_fa(faBalance, account, stealth_owner, amount,
                           f.label, f.eph_pubkey, f.payload, f.note), "fa")

CallPayFa ==
    \E account \in Signers, stealth_owner \in Accounts, amount \in Amounts,
       f \in EventFields :
        Submit("pay_fa", account, stealth_owner, amount, f,
               pay_fa(faBalance, account, stealth_owner, amount,
                      f.label, f.eph_pubkey, f.payload, f.note), "fa")

CallAnnounceWithdrawFa ==
    \E account \in Signers, destination \in Accounts, amount \in Amounts :
        Submit("announce_withdraw_fa", account, destination, amount, NoFields,
               announce_withdraw_fa(faBalance, account, amount, destination), "fa")

CallWithdrawFa ==
    \E account \in Signers, destination \in Accounts, amount \in Amounts :
        Submit("withdraw_fa", account, destination, amount, NoFields,
               withdraw_fa(faBalance, account, amount, destination), "fa")

NextChain ==
    \/ CallAnnounce
    \/ CallPay
    \/ CallAnnounceWithdraw
    \/ CallWithdraw
    \/ CallAnnounceFa
    \/ CallPayFa
    \/ CallAnnounceWithdrawFa
    \/ CallWithdrawFa

SpecChain == InitFixedKeys /\ [][NextChain]_vars

(***************************************************************************)
(* The CCTP demo: waitForTransaction and getAttestationFromIris.           *)
(***************************************************************************)
\* CONFIG.CCTP.maxRetries
maxRetries == 150

\* Polls after which waitForTransaction is no longer followed.
MaxWaitPolls == 3

\* The receipt the node returns for the transaction now.
GetTransactionReceipt ==
    IF txStatus = "pending" THEN NullReceipt
    ELSE IF txStatus = "success" THEN Receipt(1)
    ELSE Receipt(0)

\* The loop condition of waitForTransaction.
WaitKeepsPolling(transactionReceipt) ==
    ~transactionReceipt.isNull /\ transactionReceipt.status = 0

\* The transaction is mined: it succeeds or reverts, and stays so.
Mine ==
    /\ txStatus = "pending"
    /\ txStatus' \in {"success", "reverted"}
    /\ UNCHANGED <<flowVars, toolVars, chainVars, waitTx, iris>>

\* waitForTransaction(web3, txHash): the first getTransactionReceipt.
WaitCall ==
    /\ waitTx.pc = "idle"
    /\ waitTx' = [pc |-> "loop", transactionReceipt |-> GetTransactionReceipt, polls |-> 1]
    /\ UNCHANGED <<flowVars, toolVars, chainVars, txStatus, iris>>

\* One turn of the loop: getTransactionReceipt again, then the 4 s sleep.
WaitPoll ==
    /\ waitTx.pc = "loop"
    /\ WaitKeepsPolling(waitTx.transactionReceipt)
    /\ waitTx.polls < MaxWaitPolls
    /\ waitTx' = [waitTx EXCEPT !.transactionReceipt = GetTransactionReceipt,
                                !.polls = @ + 1]
    /\ UNCHANGED <<flowVars, toolVars, chainVars, txStatus, iris>>

\* The loop condition is false: return transactionReceipt.
WaitReturn ==
    /\ waitTx.pc = "loop"
    /\ ~WaitKeepsPolling(waitTx.transactionReceipt)
    /\ waitTx' = [waitTx EXCEPT !.pc = "returned"]
    /\ UNCHANGED <<flowVars, toolVars, chainVars, txStatus, iris>>

\* The bodies a poll of the Iris API can give (a fetch may also throw): the
\* API answers with a JSON object; one without a status field, such as an
\* error object, reads as undefined.
IrisResponses ==
    {[status |-> "pending", attestation |-> ""],
     [status |-> "pending_confirmations", attestation |-> "PENDING"],
     [status |-> "undefined", attestation |-> "undefined"],
     [status |-> "complete", attestation |-> "0xattestation"]}

\* A loop condition that allows one attempt more.
IrisKeepsPolling_OneMore(local) ==
    /\ local.attestationResponse.status # "complete"
    /\ local.attemptCount <= maxRetries

\* The loop condition of getAttestationFromIris.
IrisKeepsPolling(local) ==
    /\ local.attestationResponse.status # "complete"
    /\ local.attemptCount < maxRetries

\* The locals after one turn of the loop in which fetch threw.
IrisAfterThrow(local) ==
    [local EXCEPT !.attemptCount = @ + 1, !.polls = @ + 1, !.fetchThrew = TRUE]

\* The locals after one turn of the loop in which response was read: a
\* complete response breaks out of the loop before attemptCount++.
IrisAfterResponse(local, response) ==
    IF response.status = "complete"
    THEN [local EXCEPT !.attestationResponse = response, !.polls = @ + 1]
    ELSE [local EXCEPT !.attestationResponse = response, !.polls = @ + 1,
                       !.attemptCount = @ + 1]

\* getAttestationFromIris(messageHash) is called with the message of the
\* burn receipt.
IrisCall ==
    /\ iris.pc = "idle"
    /\ waitTx.pc = "returned"
    /\ ~waitTx.transactionReceipt.isNull
    /\ iris' = [IrisIdle EXCEPT !.pc = "polling"]
    /\ UNCHANGED <<flowVars, toolVars, chainVars, txStatus, waitTx>>

\* One turn of the polling loop.
IrisPoll ==
    /\ iris.pc = "polling"
    /\ IrisKeepsPolling(iris)
    /\ \/ iris' = IrisAfterThrow(iris)
       \/ \E response \in IrisResponses : iris' = IrisAfterResponse(iris, response)
    /\ UNCHANGED <<flowVars, toolVars, chainVars, txStatus, waitTx>>

\* After the loop: throw unless the response is complete.
IrisFinish ==
    /\ iris.pc = "polling"
    /\ ~IrisKeepsPolling(iris)
    /\ iris' = IF iris.attestationResponse.status # "complete"
               THEN [iris EXCEPT !.pc = "thrown",
                                 !.thrown = <<"Attestation failed after",
                                              iris.attemptCount, "attempts">>]
               ELSE [iris EXCEPT !.pc = "returned",
                                 !.returned = iris.attestationResponse.attestation]
    /\ UNCHANGED <<flowVars, toolVars, chainVars, txStatus, waitTx>>

NextCctp ==
    \/ Mine
    \/ WaitCall
    \/ WaitPoll
    \/ WaitReturn
    \/ IrisCall
    \/ IrisPoll
    \/ IrisFinish

SpecCctp == InitFixedKeys /\ [][NextCctp]_vars

\* Every fetch settles and every timer fires: a turn of the polling loop
\* that can be taken is taken.
SpecCctpLive == SpecCctp /\ WF_vars(IrisPoll) /\ WF_vars(IrisFinish)

\* The tweak scalar t of the run: SHA-256 of the X coordinate of the point
\* shared by the ephemeral key and the meta-view key, modulo n.
TweakOfRun ==
    TweakScalarOf(GetSharedSecret(ephPriv, Bs58Decode(metaViewPubB58), TRUE).val)

\* The meta-spend point S of the run.
SpendPointOfRun == PointFromHex(Bs58Decode(metaSpendPubB58)).val

(***************************************************************************)
(* Properties of the derivation flow (specification Spec)                  *)
(***************************************************************************)
\* C1: whenever the payer's deriveStealthPub(S, V, e) returns, the receiver's
\* deriveStealthKeypair(s, v, E) returns too and both report the same Aptos
\* address, so validateStealthMatch answers true.
C1_StealthAddressesAgree ==
    /\ (stealthPub.ok /\ stealthKP # NONE) =>
           /\ stealthKP.ok
           /\ stealthKP.val.stealthAddress = stealthPub.val.stealthAptosAddress
    /\ addressesMatch.ok => addressesMatch.val = TRUE

C1_Witness ==
    /\ stealthPub.ok /\ stealthKP.ok
    /\ addressesMatch.ok

\* C2: the public key of the private key that deriveStealthKeypair returns,
\* ((s + t) mod n) * G, is byte for byte the compressed key S + t * G that
\* deriveStealthPub returns, and the two Base58 texts are equal.
C2_StealthPublicKeysAgree ==
    (stealthPub.ok /\ stealthKP # NONE) =>
        /\ stealthKP.ok
        /\ GetPublicKey(stealthKP.val.privateKey, TRUE)
               = Ok(stealthPub.val.stealthPubKeyBytes)
        /\ stealthKP.val.publicKeyBase58 = stealthPub.val.stealthPubKeyB58

\* The sum s + t wrapped around the group order.
C2_Witness ==
    /\ stealthPub.ok /\ stealthKP.ok
    /\ stealthKP.val.privateKey[32] < metaSpendPriv[32]

\* C6: the address the encoder returns is "0x" and the hex of SHA3-256 over
\* the 68 bytes 0x01, 0x41, the 65-byte uncompressed key (0x04, X, Y), 0x02.
C6_AddressIsSha3OfLayout ==
    stealthPub.ok =>
        LET pt == PointFromHex(stealthPub.val.stealthPubKeyBytes).val
            X  == NumTo32b(pt[1])
            Y  == NumTo32b(pt[2])
            D  == [i \in 1..68 |->
                      IF i = 1 THEN 1
                      ELSE IF i = 2 THEN 65
                      ELSE IF i = 3 THEN 4
                      ELSE IF i <= 35 THEN X[i - 3]
                      ELSE IF i <= 67 THEN Y[i - 35]
                      ELSE 2]
        IN  /\ OnCurve(pt)
            /\ stealthPub.val.stealthAptosAddress = <<"0", "x">> \o ToHex(sha3_256(D))
            /\ Len(stealthPub.val.stealthAptosAddress) = 66

\* An address was computed for a key with an odd Y coordinate.
C6_Witness ==
    /\ stealthPub.ok
    /\ stealthPub.val.stealthPubKeyBytes[1] = 3

\* C7: importing the derived private key into the SDK's single-key account
\* routine gives the address deriveStealthKeypair returned, and the library's
\* own encoder gives the same address for the compressed public key.
C7_SdkParity ==
    /\ (stealthKP.ok /\ importedAddress # NONE) =>
           /\ importedAddress.ok
           /\ importedAddress.val = stealthKP.val.stealthAddress
    /\ stealthKP.ok =>
           secp256k1PointToAptosAddress(Bs58Decode(stealthKP.val.publicKeyBase58))
               = Ok(stealthKP.val.stealthAddress)

C7_Witness ==
    /\ stealthKP.ok
    /\ importedAddress.ok


(***************************************************************************)
(* Properties of the memo (specifications SpecMemo and SpecTamper)         *)
(***************************************************************************)
\* C4: decrypting the memo that encryptEphemeralPrivKey(e, V) produced, with
\* the view private key v and the ephemeral public key E, succeeds and
\* returns exactly the 32 bytes of e.
C4_MemoRoundTrip ==
    /\ memo # NONE => memo.ok
    /\ decryptedEphPriv # NONE => decryptedEphPriv = Ok(ephPriv)

\* A memo whose nonce starts with zero bytes (Base58 text starting with "1")
\* was decrypted.
C4_Witness ==
    /\ decryptedEphPriv.ok
    /\ Len(decryptedEphPriv.val) = 32
    /\ memo.val[1] = "1"

\* C5: after any single bit of the memo's ciphertext region is inverted,
\* decryptEphemeralPrivKey fails instead of returning a key.
C5_BitFlipFails ==
    tampered # NONE =>
        /\ tampered.blob # memo.val
        /\ ~tampered.result.ok

\* The inverted bit turned the private key into another valid key, and the
\* comparison of the public keys rejected it.
C5_Witness ==
    /\ tampered # NONE
    /\ tampered.pos < 56
    /\ tampered.result.err = "Decryption failed - ephemeral public key mismatch"


\* C9: the memo and the published ephemeral public key E do not determine
\* the symmetric key K or the ephemeral private key e.  An observer holds
\* the memo and E only; the plaintext's bytes 32 .. 63 are the first 32
\* bytes of E, so XOR-ing them with the ciphertext gives a candidate for K,
\* and that candidate XOR-ed with the first 32 ciphertext bytes gives a
\* candidate for e.
C9_ObserverKey ==
    LET ciphertext == SliceFrom(Bs58Decode(memo.val), 24)
        E          == Bs58Decode(ephPubB58)
    IN  [j \in 1..32 |-> BitXor(ciphertext[32 + j], E[j])]

C9_ObserverEphPriv ==
    LET ciphertext == SliceFrom(Bs58Decode(memo.val), 24)
        K          == C9_ObserverKey
    IN  [j \in 1..32 |-> BitXor(ciphertext[j], K[j])]

C9_MemoConfidential ==
    memo.ok =>
        /\ C9_ObserverKey #
               KeyBytesOf(GetSharedSecret(ephPriv, Bs58Decode(metaViewPubB58), TRUE).val)
        /\ C9_ObserverEphPriv # ephPriv

(***************************************************************************)
(* Properties of the private note (specification SpecNote)                 *)
(***************************************************************************)
\* C3: decrypting the bytes that encryptNote(m, e, V) produced, with v and
\* E, returns exactly the message m, whatever nonce was drawn.
C3_NoteRoundTrip ==
    /\ encryptedNote # NONE => encryptedNote.ok
    /\ decryptedNote # NONE => decryptedNote = Ok(privateNote)


(***************************************************************************)
(* Properties of a batch of payments (specification SpecBatch)             *)
(***************************************************************************)
\* The tweak scalar of the i-th payment of the batch.
C8_Tweak(i) ==
    TweakScalarOf(GetSharedSecret(batch[i].ephPriv, Bs58Decode(metaViewPubB58), TRUE).val)

C10_IsText == rawKey.kind = "str"

C10_EmptyInput == rawKey.kind \in {"str", "u8"} /\ rawKey.chars = << >> /\ rawKey.bytes = << >>

C10_Hex63 ==
    /\ C10_IsText /\ Len(rawKey.chars) = 63
    /\ \A i \in 1..63 : IsHexChar(rawKey.chars[i])

C10_NonHex64 ==
    /\ C10_IsText /\ Len(rawKey.chars) = 64
    /\ \E i \in 1..64 : ~IsHexChar(rawKey.chars[i])

C10_Base58Of33Bytes ==
    /\ C10_IsText /\ Bs58Valid(rawKey.chars)
    /\ Len(Bs58Decode(rawKey.chars)) = 33

C10_ArbitraryObject == rawKey.kind \in {"obj", "undefined"} /\ rawKey.type # "Buffer"

\* C10: to32u8 throws for empty input, for a 63-character hex string, for a
\* 64-character string with a non-hex character, for Base58 text that
\* decodes to 33 bytes, and for an arbitrary object.
C10_RejectsMalformedKeys ==
    (/\ normalized # NONE
     /\ \/ C10_EmptyInput
        \/ C10_Hex63
        \/ C10_NonHex64
        \/ C10_Base58Of33Bytes
        \/ C10_ArbitraryObject)
        => ~normalized.ok


\* C11: to32u8 fails for raw bytes whose length is not 32, and whenever it
\* returns, the result is exactly 32 bytes.
C11_ResultIs32Bytes ==
    normalized # NONE =>
        /\ (rawKey.kind = "u8" /\ Len(rawKey.bytes) # 32) => ~normalized.ok
        /\ normalized.ok => Len(normalized.val) = 32


(***************************************************************************)
(* Properties of scalar validation (specification SpecScalars)             *)
(***************************************************************************)
\* C12: deriveStealthPub(S, V, e) fails, returning no stealth public key or
\* address, when the ephemeral scalar e is zero or at least the order n.
C12_PayerRejectsBadEphemeral ==
    (stealthPub # NONE /\ (IsZeroBytes(ephPriv) \/ ~CmpBytesToNum(ephPriv, 1, CurveN)))
        => (~stealthPub.ok /\ stealthPub.val = << >>)

\* deriveStealthPub was called with e = n.
C12_Witness ==
    /\ stealthPub # NONE
    /\ ephPriv = NumTo32b(CurveN)
    /\ ~stealthPub.ok

\* C13: deriveStealthKeypair(s, v, E) fails when the meta-spend scalar s or
\* the meta-view scalar v is zero or at least the order n.
C13_ReceiverRejectsBadScalars ==
    (/\ stealthKP # NONE
     /\ \/ IsZeroBytes(metaSpendPriv) \/ ~CmpBytesToNum(metaSpendPriv, 1, CurveN)
        \/ IsZeroBytes(metaViewPriv) \/ ~CmpBytesToNum(metaViewPriv, 1, CurveN))
        => ~stealthKP.ok


(***************************************************************************)
(* Degenerate derivations (specification Spec)                             *)
(***************************************************************************)
\* C14: deriveStealthKeypair fails when (s + t) mod n = 0, and every private
\* key it returns is 32 bytes, big-endian, encoding (s + t) mod n in 1..n-1.
C14_StealthScalarInRange ==
    LET sum == (ModOfBytes(metaSpendPriv, 1, 0, CurveN) + TweakOfRun) % CurveN
    IN  stealthKP # NONE =>
            /\ sum = 0 => ~stealthKP.ok
            /\ stealthKP.ok =>
                   /\ Len(stealthKP.val.privateKey) = 32
                   /\ sum \in 1..(CurveN - 1)
                   /\ stealthKP.val.privateKey = NumTo32b(sum)

\* The receiver's derivation ran with s + t = n.
C14_Witness ==
    /\ stealthKP # NONE
    /\ ModOfBytes(metaSpendPriv, 1, 0, CurveN) + TweakOfRun = CurveN
    /\ TweakOfRun # 0
    /\ ~stealthKP.ok

\* C15: deriveStealthPub fails when S + t*G is the point at infinity, and a
\* stealth public key it returns is never the encoding of that point.
C15_NoIdentityStealthKey ==
    stealthPub # NONE =>
        /\ (TweakOfRun # 0 /\ PointAdd(SpendPointOfRun, ScalarMul(TweakOfRun, BASE)) = ZERO)
               => ~stealthPub.ok
        /\ stealthPub.ok =>
               /\ stealthPub.val.stealthPubKeyBytes # PointToRawBytes(ZERO, TRUE)
               /\ PointFromHex(stealthPub.val.stealthPubKeyBytes).ok
               /\ stealthPub.val.stealthPubKeyB58 # Bs58Encode(PointToRawBytes(ZERO, TRUE))

\* The payer's derivation ran with S = -t*G and was refused when the
\* address encoder parsed the key.
C15_Witness ==
    /\ stealthPub # NONE
    /\ TweakOfRun # 0
    /\ PointAdd(SpendPointOfRun, ScalarMul(TweakOfRun, BASE)) = ZERO
    /\ stealthPub.err = "Point is not on curve"

\* C16: when the tweak t is 0 the derivation is rejected on both sides:
\* deriveStealthPub does not return S and deriveStealthKeypair does not
\* return s.
C16_ZeroTweakRejectedOnBothSides ==
    TweakOfRun = 0 =>
        /\ stealthPub # NONE => ~stealthPub.ok
        /\ stealthKP # NONE => ~stealthKP.ok


(***************************************************************************)
(* Properties of the ephPub argument (specification SpecSupplied)          *)
(***************************************************************************)
\* C17: whenever decryptEphemeralPrivKey(payload, v, ephPub) returns a key,
\* the compressed public key of that key equals the ephPub argument, and
\* when a wrong ephemeral public key is supplied the call does not return.
C17_ReturnedKeyMatchesSuppliedPub ==
    suppliedDecrypt # NONE =>
        /\ suppliedDecrypt.result.ok =>
               GetPublicKey(suppliedDecrypt.result.val, TRUE)
                   = Ok(Bs58Decode(suppliedDecrypt.ephPub))
        /\ suppliedDecrypt.ephPub # ephPubB58 => ~suppliedDecrypt.result.ok


C19_NonceIgnored ==
    renonced # NONE => renonced.other = renonced.original

\* A memo was decrypted successfully under a nonce it was not made with.
C19_Witness ==
    /\ renonced # NONE
    /\ renonced.of = "memo"
    /\ ~renonced.same
    /\ renonced.other.ok


(***************************************************************************)
(* Properties of the blob layout (specification SpecBlobs)                 *)
(***************************************************************************)
\* C20: encryptNote(P, e, V) returns exactly 24 + len(P) bytes, a 24-byte
\* nonce followed by C with C[i] = P[i] XOR K[i mod 32] for every i in
\* 0..len(P)-1, where P is the UTF-8 of the note and K is SHA-256 of the
\* 32-byte X coordinate of ECDH(e, V); an 11-byte message gives a 35-byte
\* blob, and the ephemeral-key blob decodes to 24 + 65 bytes.
C20_BlobLayout ==
    /\ encryptedNote # NONE =>
           /\ encryptedNote.ok
           /\ LET P    == TextEncode(privateNote)
                  blob == encryptedNote.val
                  K    == KeyOfRun
              IN  /\ Len(blob) = 24 + Len(P)
                  /\ Slice(blob, 0, 24) \in Nonces
                  /\ \A i \in 0..(Len(P) - 1) :
                         blob[24 + i + 1] = BitXor(P[i + 1], K[(i % 32) + 1])
                  /\ (Len(P) = 11 => Len(blob) = 35)
    /\ memo # NONE =>
           /\ memo.ok
           /\ Len(Bs58Decode(memo.val)) = 24 + 65

\* Both blobs were produced for the 11-byte note.
C20_Witness ==
    /\ privateNote = HelloNote
    /\ Len(TextEncode(privateNote)) = 11
    /\ encryptedNote # NONE /\ encryptedNote.ok
    /\ Len(encryptedNote.val) = 35
    /\ memo # NONE /\ memo.ok


(***************************************************************************)
(* Properties of the address text (specification SpecAddress)              *)
(***************************************************************************)
\* '0x' followed by exactly 64 lowercase hex digits.
C21_IsLongAddress(text) ==
    /\ Len(text) = 66
    /\ text[1] = "0" /\ text[2] = "x"
    /\ \A i \in 3..66 : \E d \in 1..16 : HexDigits[d] = text[i]

C22_Pad32 ==
    padCall # NONE =>
        LET n == IF Len(padCall.u8) < 32 THEN Len(padCall.u8) ELSE 32
        IN  /\ Len(padCall.out) = 32
            /\ \A i \in 1..n : padCall.out[i] = padCall.u8[i]
            /\ \A i \in (n + 1)..32 : padCall.out[i] = 0
            /\ padCall.after = padCall.u8

\* An input longer than 32 bytes, with a non-zero 33rd byte, was padded.
C22_Witness ==
    /\ padCall # NONE
    /\ Len(padCall.u8) > 32
    /\ padCall.u8[33] # 0
    /\ Len(padCall.out) = 32


(***************************************************************************)
(* Properties of the universal client (specification SpecClient)           *)
(***************************************************************************)
\* The helper of the Fungible Asset path and of the Coin path of a call.
C23_FaHelper   == IF clientCall.op = "announce" THEN "announceFa" ELSE "withdrawFa"
C23_CoinHelper == IF clientCall.op = "announce" THEN "announceCoin" ELSE "withdrawCoin"

\* 64 hex digits of either case after a two-character prefix.
C23_Has64HexDigits(text) ==
    /\ Len(text) = 66
    /\ \A i \in 3..66 : \E d \in 1..16 : text[i] \in {HexDigits[d], HexUpper[d]}

\* Exactly one helper ran, the Fungible Asset one iff fa, and the reported
\* info says the same.
C23_DispatchIs(fa) ==
    /\ Len(clientCall.invoked) = 1
    /\ clientCall.invoked[1] = (IF fa THEN C23_FaHelper ELSE C23_CoinHelper)
    /\ clientCall.info.isFungibleAsset = fa
    /\ clientCall.info.detectedAs = (IF fa THEN "Fungible Asset" ELSE "Coin")

\* C23 as stated: announce invokes exactly one of announceFa / announceCoin
\* and withdraw exactly one of withdrawFa / withdrawCoin, the Fungible
\* Asset one if and only if assetType is '0x' followed by exactly 64 hex
\* digits, in agreement with the isFungibleAsset and detectedAs fields of
\* getAssetTypeInfo.
C23_FaIffLowercasePrefix ==
    clientCall # NONE =>
        C23_DispatchIs(/\ C23_Has64HexDigits(clientCall.assetType)
                       /\ clientCall.assetType[1] = "0"
                       /\ clientCall.assetType[2] = "x")

\* C23 amended: the same, with the Fungible Asset path taken if and only
\* if assetType is '0x' or '0X' followed by exactly 64 hex digits.
C23_FaIffPrefixOfEitherCase ==
    clientCall # NONE =>
        C23_DispatchIs(/\ C23_Has64HexDigits(clientCall.assetType)
                       /\ clientCall.assetType[1] = "0"
                       /\ clientCall.assetType[2] \in {"x", "X"})

\* An announce took the Fungible Asset path for an address written with
\* the prefix '0X' and upper-case digits.
C23_Witness ==
    /\ clientCall # NONE
    /\ clientCall.invoked = <<"announceFa">>
    /\ clientCall.assetType[2] = "X"
    /\ clientCall.assetType[12] = "A"
    /\ clientCall.info.detectedAs = "Fungible Asset"


(***************************************************************************)
(* Properties of the Move module (specification SpecChain)                 *)
(***************************************************************************)
\* The balances of the asset the last call works on, before and after it.
ChainBefore == IF lastCall.fn \in {"announce", "pay", "announce_withdraw", "withdraw"}
               THEN lastCall.coinBefore ELSE lastCall.faBefore
ChainAfter  == IF lastCall.fn \in {"announce", "pay", "announce_withdraw", "withdraw"}
               THEN coinBalance ELSE faBalance

RECURSIVE SumOver(_, _)
\* The sum of a balance table over a set of accounts.
SumOver(balance, accounts) ==
    IF accounts = {} THEN 0
    ELSE LET a == CHOOSE x \in accounts : TRUE
         IN  balance[a] + SumOver(balance, accounts \ {a})

\* The last call changed neither a balance nor the events.
ChainUntouched ==
    /\ coinBalance = lastCall.coinBefore
    /\ faBalance = lastCall.faBefore
    /\ Len(events) = lastCall.eventsBefore

\* The last call emitted exactly one event.
ChainEmittedOne == Len(events) = lastCall.eventsBefore + 1

IsPaymentEvent(e) == e.type \in {"PaymentEvent", "PaymentEventFA"}

\* C24: after any sequence of calls every emitted PaymentEvent and
\* PaymentEventFA has amount > 0, a payload of at most 121 bytes and a note
\* of at most 256 bytes; a call of announce, pay, announce_fa or pay_fa that
\* violates one of these aborts with EInvalidAmount or EPayloadTooLong and
\* emits no event.
C24_PaymentEventsWithinLimits ==
    /\ \A i \in 1..Len(events) :
           IsPaymentEvent(events[i]) =>
               /\ events[i].amount > 0
               /\ Len(events[i].payload) <= 121
               /\ Len(events[i].note) <= 256
    /\ (/\ lastCall # NONE
        /\ lastCall.fn \in {"announce", "pay", "announce_fa", "pay_fa"}
        /\ \/ lastCall.amount = 0
           \/ lastCall.sizes.payload > 121
           \/ lastCall.sizes.note > 256)
           => /\ ~lastCall.ok
              /\ lastCall.code \in {EInvalidAmount, EPayloadTooLong}
              /\ (lastCall.amount = 0 => lastCall.code = EInvalidAmount)
              /\ ChainUntouched

\* A payment with a payload of 121 bytes and a note of 256 bytes was
\* accepted and its event emitted.
C24_Witness ==
    /\ lastCall # NONE /\ lastCall.ok
    /\ lastCall.fn = "pay_fa"
    /\ Len(events) = 1
    /\ Len(events[1].payload) = 121
    /\ Len(events[1].note) = 256

\* C25: every payment event carries a label of exactly 32 bytes and an
\* eph_pubkey of exactly 33 bytes.
C25_FixedFieldSizes ==
    \A i \in 1..Len(events) :
        IsPaymentEvent(events[i]) =>
            /\ Len(events[i].label) = 32
            /\ Len(events[i].eph_pubkey) = 33

\* The checks of pay and pay_fa that come before the balance check pass.
C26_InputValid ==
    /\ lastCall.amount > 0
    /\ lastCall.sizes.payload <= 121
    /\ lastCall.sizes.note <= 256

\* The last event records the payer, the stealth owner and the amount of
\* the last call.
C26_EventRecordsCall ==
    /\ ChainEmittedOne
    /\ IsPaymentEvent(events[Len(events)])
    /\ events[Len(events)].payer = lastCall.account
    /\ events[Len(events)].stealth_owner = lastCall.other
    /\ events[Len(events)].amount = lastCall.amount

\* pay and pay_fa abort without a trace, with EInsufficientFunds when the
\* payer holds less than amount; otherwise one event is emitted and the
\* sum of the balances stays.
C26_AbortOrCommit ==
    /\ (ChainBefore[lastCall.account] < lastCall.amount => ~lastCall.ok)
    /\ (ChainBefore[lastCall.account] < lastCall.amount /\ C26_InputValid
            => lastCall.code = EInsufficientFunds)
    /\ (~lastCall.ok => ChainUntouched)
    /\ (lastCall.ok =>
            /\ C26_EventRecordsCall
            /\ SumOver(ChainAfter, Accounts) = SumOver(ChainBefore, Accounts)
            /\ lastCall.fn = "pay" => faBalance = lastCall.faBefore
            /\ lastCall.fn = "pay_fa" => coinBalance = lastCall.coinBefore)

\* C26 as stated: pay / pay_fa is all-or-nothing, and on success the
\* payer's balance decreases by exactly amount and stealth_owner's balance
\* increases by exactly amount.
C26_PayMovesExactlyAmount ==
    (lastCall # NONE /\ lastCall.fn \in {"pay", "pay_fa"}) =>
        /\ C26_AbortOrCommit
        /\ (lastCall.ok =>
                /\ ChainAfter[lastCall.account] = ChainBefore[lastCall.account] - lastCall.amount
                /\ ChainAfter[lastCall.other] = ChainBefore[lastCall.other] + lastCall.amount)

\* C26 amended: the same, with the two balances changing by amount when
\* stealth_owner is another account than the payer, and no balance
\* changing when the payer pays itself.
C26_PayMovesAmountBetweenAccounts ==
    (lastCall # NONE /\ lastCall.fn \in {"pay", "pay_fa"}) =>
        /\ C26_AbortOrCommit
        /\ (lastCall.ok /\ lastCall.other # lastCall.account =>
                /\ ChainAfter[lastCall.account] = ChainBefore[lastCall.account] - lastCall.amount
                /\ ChainAfter[lastCall.other] = ChainBefore[lastCall.other] + lastCall.amount
                /\ \A a \in Accounts \ {lastCall.account, lastCall.other} :
                       ChainAfter[a] = ChainBefore[a])
        /\ (lastCall.ok /\ lastCall.other = lastCall.account => ChainAfter = ChainBefore)

\* A payer paid itself: an event was emitted and its balance is the same.
C26_Witness ==
    /\ lastCall # NONE /\ lastCall.ok
    /\ lastCall.fn = "pay"
    /\ lastCall.other = lastCall.account
    /\ lastCall.amount > 0
    /\ coinBalance = lastCall.coinBefore
    /\ ChainEmittedOne

\* C27: announce, announce_fa, announce_withdraw and announce_withdraw_fa
\* change no balance of any account: each either aborts or emits exactly
\* one event, and leaves all coin and fungible-asset balances unchanged.
C27_AnnounceMovesNothing ==
    (/\ lastCall # NONE
     /\ lastCall.fn \in {"announce", "announce_fa",
                         "announce_withdraw", "announce_withdraw_fa"}) =>
        /\ coinBalance = lastCall.coinBefore
        /\ faBalance = lastCall.faBefore
        /\ (lastCall.ok => ChainEmittedOne)
        /\ (~lastCall.ok => Len(events) = lastCall.eventsBefore)

\* An account holding no fungible asset announced a payment of one unit.
C27_Witness ==
    /\ lastCall # NONE /\ lastCall.ok
    /\ lastCall.fn = "announce_fa"
    /\ lastCall.faBefore[lastCall.account] < lastCall.amount
    /\ ChainEmittedOne

\* withdraw and withdraw_fa: the event names the signer, the aborts are
\* the documented ones and no balance is negative.
C28_SignerOnly ==
    /\ (lastCall.amount = 0 => ~lastCall.ok /\ lastCall.code = EInvalidAmount)
    /\ (ChainBefore[lastCall.account] < lastCall.amount
            => ~lastCall.ok /\ lastCall.code = EInsufficientFunds)
    /\ (~lastCall.ok => ChainUntouched)
    /\ (lastCall.ok =>
            /\ ChainEmittedOne
            /\ events[Len(events)].type \in {"WithdrawEvent", "WithdrawEventFA"}
            /\ events[Len(events)].stealth_owner = lastCall.account
            /\ events[Len(events)].destination = lastCall.other
            /\ events[Len(events)].amount = lastCall.amount
            /\ \A a \in Accounts \ {lastCall.account, lastCall.other} :
                   ChainAfter[a] = ChainBefore[a])

C28_NoNegativeBalance ==
    \A a \in Accounts : coinBalance[a] >= 0 /\ faBalance[a] >= 0

\* C28 as stated: withdraw / withdraw_fa moves funds only out of the
\* signing account; the signer's balance decreases by amount and the
\* destination's increases by amount.
C28_WithdrawMovesAmount ==
    /\ C28_NoNegativeBalance
    /\ (lastCall # NONE /\ lastCall.fn \in {"withdraw", "withdraw_fa"}) =>
           /\ C28_SignerOnly
           /\ (lastCall.ok =>
                   /\ ChainAfter[lastCall.account] = ChainBefore[lastCall.account] - lastCall.amount
                   /\ ChainAfter[lastCall.other] = ChainBefore[lastCall.other] + lastCall.amount)

\* C28 amended: the same, with the two balances changing by amount when
\* the destination is another account than the signer, and no balance
\* changing when the signer withdraws to itself.
C28_WithdrawMovesAmountToOther ==
    /\ C28_NoNegativeBalance
    /\ (lastCall # NONE /\ lastCall.fn \in {"withdraw", "withdraw_fa"}) =>
           /\ C28_SignerOnly
           /\ (lastCall.ok /\ lastCall.other # lastCall.account =>
                   /\ ChainAfter[lastCall.account] = ChainBefore[lastCall.account] - lastCall.amount
                   /\ ChainAfter[lastCall.other] = ChainBefore[lastCall.other] + lastCall.amount)
           /\ (lastCall.ok /\ lastCall.other = lastCall.account => ChainAfter = ChainBefore)

\* The stealth account withdrew its whole fungible-asset balance to another
\* account.
C28_Witness ==
    /\ lastCall # NONE /\ lastCall.ok
    /\ lastCall.fn = "withdraw_fa"
    /\ lastCall.account = "stealth"
    /\ lastCall.other = "bob"
    /\ faBalance["stealth"] = 0
    /\ faBalance["bob"] = lastCall.faBefore["bob"] + lastCall.amount


C30_ReturnsConfirmedReceipt ==
    waitTx.pc = "returned" =>
        /\ ~waitTx.transactionReceipt.isNull
        /\ waitTx.transactionReceipt.status = 1

=============================================================================
